---- MODULE Spec2Model ----
(***************************************************************************)
(* A model of serde-sqlite-jsonb: the SQLite JSONB header codec            *)
(* (src/src/header.rs), the encoder (src/src/ser.rs) and the decoder       *)
(* (src/src/de.rs).  Buffers are sequences of bytes, 64-bit sizes are four *)
(* 16-bit limbs (most significant first) so that the 2^32 and 2^64         *)
(* boundaries of the format are representable.                             *)
(***************************************************************************)
EXTENDS Integers, Sequences, FiniteSets, TLC

\* ------------------------------------------------------------------------
\* Bytes and sequences
\* ------------------------------------------------------------------------
Min(a, b) == IF a <= b THEN a ELSE b

\* s[from .. to) with Rust's 0-based, half-open indices
Slice(s, from, to) == SubSeq(s, from + 1, to)

\* the first n bytes of s / what follows them (n may exceed Len(s))
TakeN(s, n) == SubSeq(s, 1, Min(n, Len(s)))
DropN(s, n) == SubSeq(s, Min(n, Len(s)) + 1, Len(s))

\* n copies of the byte b
Repeat(b, n) == [i \in 1..n |-> b]

\* ------------------------------------------------------------------------
\* u64 as four 16-bit limbs, most significant first
\* ------------------------------------------------------------------------
Limb == 65536

U64FromNat(n) == <<0, 0, n \div Limb, n % Limb>>

\* TRUE when the value is below 2^30 and can be used as a plain number
U64IsSmall(x) == x[1] = 0 /\ x[2] = 0 /\ x[3] < 16384

U64ToNat(x) == x[3] * Limb + x[4]

U64Leq(a, b) ==
    \/ a[1] < b[1]
    \/ a[1] = b[1] /\ a[2] < b[2]
    \/ a[1] = b[1] /\ a[2] = b[2] /\ a[3] < b[3]
    \/ a[1] = b[1] /\ a[2] = b[2] /\ a[3] = b[3] /\ a[4] <= b[4]

\* u64::to_be_bytes
to_be_bytes(x) ==
    << x[1] \div 256, x[1] % 256, x[2] \div 256, x[2] % 256,
       x[3] \div 256, x[3] % 256, x[4] \div 256, x[4] % 256 >>

\* u64::from_be_bytes on an 8-byte buffer
from_be_bytes(b) ==
    << b[1] * 256 + b[2], b[3] * 256 + b[4],
       b[5] * 256 + b[6], b[7] * 256 + b[8] >>

\* ------------------------------------------------------------------------
\* header.rs: element types and headers
\* ------------------------------------------------------------------------
ETNull == 0
ETTrue == 1
ETFalse == 2
ETInt == 3
ETInt5 == 4
ETFloat == 5
ETFloat5 == 6
ETText == 7
ETTextJ == 8
ETText5 == 9
ETTextRaw == 10
ETArray == 11
ETObject == 12
ETReserved13 == 13
ETReserved14 == 14
ETBinaryFloat == 15

ElementType == 0..15

\* impl From<u8> for ElementType: the low four bits
ElementTypeFrom(value) == value % 16

\* Header { element_type, payload_size }
Header(et, size) == [element_type |-> et, payload_size |-> size]

\* Header::serialize: always the 9-byte form
HeaderSerialize(h) == <<h.element_type + 240>> \o to_be_bytes(h.payload_size)

\* ------------------------------------------------------------------------
\* ser.rs: JsonbWriter
\* ------------------------------------------------------------------------
\* JsonbWriter::new: remember where the header starts, reserve 9 bytes
JsonbWriterNew(buffer, element_type) ==
    [buffer |-> buffer \o Repeat(element_type, 9), header_start |-> Len(buffer)]

\* finalize with the first threshold off by one: a payload of 12 bytes is
\* given the 1-byte form
FinalizeHeaderOffByOne(header, payload_size) ==
    LET be == to_be_bytes(payload_size) IN
    IF U64Leq(payload_size, U64FromNat(12))
    THEN [header |-> <<header[1] + payload_size[4] * 16>> \o Slice(header, 1, 9),
          head_len |-> 1]
    ELSE IF U64Leq(payload_size, U64FromNat(255))
    THEN [header |-> <<header[1] + 192, be[8]>> \o Slice(header, 2, 9),
          head_len |-> 2]
    ELSE IF U64Leq(payload_size, U64FromNat(65535))
    THEN [header |-> <<header[1] + 208>> \o Slice(be, 6, 8) \o Slice(header, 3, 9),
          head_len |-> 3]
    ELSE IF U64Leq(payload_size, <<0, 0, 65535, 65535>>)
    THEN [header |-> <<header[1] + 224>> \o Slice(be, 4, 8) \o Slice(header, 5, 9),
          head_len |-> 5]
    ELSE [header |-> <<header[1] + 240>> \o be,
          head_len |-> 9]

\* the header-rewriting part of JsonbWriter::finalize: header is the 9-byte
\* placeholder, the result is the rewritten placeholder and head_len
FinalizeHeader(header, payload_size) ==
    LET be == to_be_bytes(payload_size) IN
    IF U64Leq(payload_size, U64FromNat(11))
    THEN [header |-> <<header[1] + payload_size[4] * 16>> \o Slice(header, 1, 9),
          head_len |-> 1]
    ELSE IF U64Leq(payload_size, U64FromNat(255))
    THEN [header |-> <<header[1] + 192, be[8]>> \o Slice(header, 2, 9),
          head_len |-> 2]
    ELSE IF U64Leq(payload_size, U64FromNat(65535))
    THEN [header |-> <<header[1] + 208>> \o Slice(be, 6, 8) \o Slice(header, 3, 9),
          head_len |-> 3]
    ELSE IF U64Leq(payload_size, <<0, 0, 65535, 65535>>)
    THEN [header |-> <<header[1] + 224>> \o Slice(be, 4, 8) \o Slice(header, 5, 9),
          head_len |-> 5]
    ELSE [header |-> <<header[1] + 240>> \o be,
          head_len |-> 9]

\* Vec::copy_within(src_start..src_end, dest), a memmove
CopyWithin(buf, src_start, src_end, dest) ==
    [i \in 1..Len(buf) |->
        IF i > dest /\ i <= dest + (src_end - src_start)
        THEN buf[src_start + (i - dest)]
        ELSE buf[i]]

\* Vec::truncate
Truncate(buf, len) == SubSeq(buf, 1, Min(len, Len(buf)))

\* finalize without the final truncate: the bytes the shift left behind
\* stay at the end of the buffer
FinalizeNoTruncate(buffer, header_start) ==
    LET data_start == header_start + 9
        data_end == Len(buffer)
        fh == FinalizeHeader(Slice(buffer, header_start, header_start + 9),
                             U64FromNat(data_end - data_start))
        patched == Slice(buffer, 0, header_start) \o fh.header
                     \o Slice(buffer, data_start, data_end)
    IN  CopyWithin(patched, data_start, data_end, header_start + fh.head_len)

\* JsonbWriter::finalize
Finalize(buffer, header_start) ==
    LET data_start == header_start + 9
        data_end == Len(buffer)
        payload_size == data_end - data_start
        fh == FinalizeHeader(Slice(buffer, header_start, header_start + 9),
                             U64FromNat(payload_size))
        patched == Slice(buffer, 0, header_start) \o fh.header
                     \o Slice(buffer, data_start, data_end)
    IN  IF fh.head_len < 9
        THEN Truncate(CopyWithin(patched, data_start, data_end,
                                 header_start + fh.head_len),
                      header_start + fh.head_len + payload_size)
        ELSE patched

\* ------------------------------------------------------------------------
\* The values handed to the encoder.  A value is a record whose field k
\* names the Serializer method its Serialize implementation calls; text is
\* a sequence of UTF-8 bytes.
\* ------------------------------------------------------------------------
VBool(b) == [k |-> "bool", vb |-> b]
VUnit == [k |-> "unit"]
VInt(ty, n) == [k |-> "int", ty |-> ty, n |-> n]
VFloat(w, id) == [k |-> "float", w |-> w, id |-> id]
VChar(utf8) == [k |-> "char", utf8 |-> utf8]
VStr(utf8) == [k |-> "str", utf8 |-> utf8]
VNone == [k |-> "none"]
VSome(v) == [k |-> "some", v |-> v]
VBytes(bytes) == [k |-> "bytes", bytes |-> bytes]
VSeq(items) == [k |-> "seq", items |-> items]
VTuple(items) == [k |-> "tuple", items |-> items]
VTupleStruct(items) == [k |-> "tuple_struct", items |-> items]
VUnitStruct == [k |-> "unit_struct"]
VNewtypeStruct(v) == [k |-> "newtype_struct", v |-> v]
VMap(entries) == [k |-> "map", entries |-> entries]
VStruct(fields) == [k |-> "struct", fields |-> fields]
VUnitVariant(variant) == [k |-> "unit_variant", variant |-> variant]
VNewtypeVariant(variant, v) ==
    [k |-> "newtype_variant", variant |-> variant, v |-> v]
VTupleVariant(variant, items) ==
    [k |-> "tuple_variant", variant |-> variant, items |-> items]
VStructVariant(variant, fields) ==
    [k |-> "struct_variant", variant |-> variant, fields |-> fields]
\* a value whose Serialize implementation reports ser::Error::custom
VFailing == [k |-> "failing"]

\* The floats of the model, each the value nearest to a decimal text: the
\* text Display prints for it and its IEEE-754 bytes, least significant
\* first, as f32 and as f64.
\*   1.0, -2.5, 3.14, 0.1
FloatTable ==
    << [text |-> <<49>>,
        le32 |-> <<0, 0, 128, 63>>,
        le64 |-> <<0, 0, 0, 0, 0, 0, 240, 63>>],
       [text |-> <<45, 50, 46, 53>>,
        le32 |-> <<0, 0, 32, 192>>,
        le64 |-> <<0, 0, 0, 0, 0, 0, 4, 192>>],
       [text |-> <<51, 46, 49, 52>>,
        le32 |-> <<195, 245, 72, 64>>,
        le64 |-> <<31, 133, 235, 81, 184, 30, 9, 64>>],
       [text |-> <<48, 46, 49>>,
        le32 |-> <<205, 204, 204, 61>>,
        le64 |-> <<154, 153, 153, 153, 153, 153, 185, 63>>] >>

\* f32::to_le_bytes / f64::to_le_bytes
to_le_bytes(w, id) ==
    IF w = 32 THEN FloatTable[id].le32 ELSE FloatTable[id].le64

\* An integer is a sign and a 64-bit magnitude
IntOf(n) == [neg |-> n < 0, mag |-> U64FromNat(IF n < 0 THEN -n ELSE n)]

\* quotient and remainder of a u64 by ten, limb by limb
DivMod10(x) ==
    LET t1 == x[1]
        t2 == (t1 % 10) * Limb + x[2]
        t3 == (t2 % 10) * Limb + x[3]
        t4 == (t3 % 10) * Limb + x[4]
    IN  [q |-> <<t1 \div 10, t2 \div 10, t3 \div 10, t4 \div 10>>,
         r |-> t4 % 10]

\* Display of an unsigned integer: decimal digits, no leading zero
RECURSIVE DisplayU64(_)
DisplayU64(x) ==
    LET d == DivMod10(x)
    IN  IF d.q = <<0, 0, 0, 0>> THEN <<48 + d.r>>
        ELSE DisplayU64(d.q) \o <<48 + d.r>>

\* Display of an integer with a '+' before a non-negative one
DisplayIntPlus(n) ==
    IF n.neg THEN <<45>> \o DisplayU64(n.mag) ELSE <<43>> \o DisplayU64(n.mag)

\* Display of an integer: '-' for negatives
DisplayInt(n) ==
    IF n.neg THEN <<45>> \o DisplayU64(n.mag) ELSE DisplayU64(n.mag)

\* ------------------------------------------------------------------------
\* ser.rs: Serializer.  Every operation maps a buffer to
\* [ok, buffer]: ok = FALSE is Err(_), with the buffer as it was left.
\* ------------------------------------------------------------------------
SerOk(buffer) == [ok |-> TRUE, buffer |-> buffer]
SerErr(buffer) == [ok |-> FALSE, buffer |-> buffer]

\* Serializer::write_header_nodata
write_header_nodata(buffer, element_type) == Append(buffer, element_type)

\* Serializer::write_displayable
write_displayable(buffer, element_type, text) ==
    LET w == JsonbWriterNew(buffer, element_type)
    IN  SerOk(Finalize(w.buffer \o text, w.header_start))

\* Serializer::write_binary
write_binary(buffer, element_type, data) ==
    LET w == JsonbWriterNew(buffer, element_type)
    IN  SerOk(Finalize(w.buffer \o data, w.header_start))

\* serialize_f32 / serialize_f64
serialize_float(buffer, w, id, binary_float) ==
    IF ~binary_float
    THEN write_displayable(buffer, ETFloat, FloatTable[id].text)
    ELSE write_binary(buffer, ETBinaryFloat, to_le_bytes(w, id))

\* serialize_str writing the text as a TextJ element
serialize_str_textj(buffer, utf8) == write_displayable(buffer, ETTextJ, utf8)

\* serialize_char / serialize_str
serialize_str(buffer, utf8) == write_displayable(buffer, ETTextRaw, utf8)

\* serialize_unit
serialize_unit(buffer) == SerOk(write_header_nodata(buffer, ETNull))

\* serialize_newtype_struct: the wrapped value is not looked at
serialize_newtype_struct(buffer, value) == serialize_unit(buffer)

RECURSIVE Serialize(_, _, _)
RECURSIVE SerializeElements(_, _, _)
RECURSIVE SerializeFields(_, _, _)

\* SerializeSeq::serialize_element (also SerializeTuple, SerializeTupleStruct,
\* SerializeMap::serialize_key / serialize_value): a Serializer with the
\* writer's options works on the writer's buffer
serialize_element(buffer, value, binary_float) ==
    Serialize(buffer, value, binary_float)

\* the loop of a sequence's Serialize implementation: one serialize_element
\* per item, returning at the first Err
SerializeElements(buffer, items, binary_float) ==
    LET Rest(r) ==
            IF r.ok THEN SerializeElements(r.buffer, Tail(items), binary_float)
            ELSE r
    IN  IF items = <<>> THEN SerOk(buffer)
        ELSE Rest(serialize_element(buffer, Head(items), binary_float))

\* SerializeStruct::serialize_field for each <<key, value>>: serialize_key
\* then serialize_value (SerializeMap::serialize_entry does the same)
SerializeFields(buffer, fields, binary_float) ==
    LET Rest(rv) ==
            IF ~rv.ok THEN rv
            ELSE SerializeFields(rv.buffer, Tail(fields), binary_float)
        Value(rk) ==
            IF ~rk.ok THEN rk
            ELSE Rest(serialize_element(rk.buffer, Head(fields)[2],
                                        binary_float))
    IN  IF fields = <<>> THEN SerOk(buffer)
        ELSE Value(serialize_element(buffer, Head(fields)[1], binary_float))

\* serialize_seq whose end does not finalize: the 9-byte placeholder stays
\* in front of the elements
serialize_seq_unfinalized(buffer, items, binary_float) ==
    SerializeElements(JsonbWriterNew(buffer, ETArray).buffer, items,
                      binary_float)

\* serialize_seq / serialize_tuple / serialize_tuple_struct ... end
serialize_seq(buffer, items, binary_float) ==
    LET End(w, r) ==
            IF r.ok THEN SerOk(Finalize(r.buffer, w.header_start)) ELSE r
        Elements(w) ==
            End(w, SerializeElements(w.buffer, items, binary_float))
    IN  Elements(JsonbWriterNew(buffer, ETArray))

\* serialize_map / serialize_struct ... end
serialize_map(buffer, entries, binary_float) ==
    LET End(w, r) ==
            IF r.ok THEN SerOk(Finalize(r.buffer, w.header_start)) ELSE r
        Entries(w) ==
            End(w, SerializeFields(w.buffer, entries, binary_float))
    IN  Entries(JsonbWriterNew(buffer, ETObject))

\* serialize_newtype_variant
serialize_newtype_variant(buffer, variant, value, binary_float) ==
    serialize_map(buffer, <<<<VStr(variant), value>>>>, binary_float)

\* EnumVariantSerializer::new: the map writer, the key, the inner writer
EnumVariantSerializerNew(buffer, variant, inner_element_type, binary_float) ==
    LET Made(map_jsonb_writer, inner_jsonb_writer) ==
            [map_header_start |-> map_jsonb_writer.header_start,
             inner_header_start |-> inner_jsonb_writer.header_start,
             buffer |-> inner_jsonb_writer.buffer]
        Inner(map_jsonb_writer, key) ==
            Made(map_jsonb_writer,
                 JsonbWriterNew(key.buffer, inner_element_type))
        Key(map_jsonb_writer) ==
            Inner(map_jsonb_writer,
                  serialize_element(map_jsonb_writer.buffer, VStr(variant),
                                    binary_float))
    IN  Key(JsonbWriterNew(buffer, ETObject))

\* end with the two writers finalized in the wrong order: the map first
EnumVariantSerializerEndMapFirst(buffer, inner_header_start, map_header_start) ==
    Finalize(Finalize(buffer, map_header_start), inner_header_start)

\* SerializeTupleVariant::end: the inner writer first, then the map
EnumVariantSerializerEnd(buffer, inner_header_start, map_header_start) ==
    Finalize(Finalize(buffer, inner_header_start), map_header_start)

\* serialize_tuple_variant ... serialize_field* ... end
serialize_tuple_variant(buffer, variant, items, binary_float) ==
    LET End(e, r) ==
            IF r.ok
            THEN SerOk(EnumVariantSerializerEnd(r.buffer, e.inner_header_start,
                                                e.map_header_start))
            ELSE r
        Fields(e) == End(e, SerializeElements(e.buffer, items, binary_float))
    IN  Fields(EnumVariantSerializerNew(buffer, variant, ETArray,
                                        binary_float))

\* serialize_struct_variant ... serialize_field* ... end
serialize_struct_variant(buffer, variant, fields, binary_float) ==
    LET End(e, r) ==
            IF r.ok
            THEN SerOk(EnumVariantSerializerEnd(r.buffer, e.inner_header_start,
                                                e.map_header_start))
            ELSE r
        Fields(e) == End(e, SerializeFields(e.buffer, fields, binary_float))
    IN  Fields(EnumVariantSerializerNew(buffer, variant, ETObject,
                                        binary_float))

\* value.serialize(&mut serializer): the method of impl ser::Serializer for
\* &mut Serializer that the value's kind selects
Serialize(buffer, value, binary_float) ==
    CASE value.k = "bool" ->
            SerOk(write_header_nodata(buffer,
                                      IF value.vb THEN ETTrue ELSE ETFalse))
      [] value.k = "int" ->
            write_displayable(buffer, ETInt, DisplayInt(value.n))
      [] value.k = "float" -> serialize_float(buffer, value.w, value.id, binary_float)
      [] value.k \in {"char", "str"} -> serialize_str(buffer, value.utf8)
      [] value.k \in {"unit", "none", "unit_struct"} -> serialize_unit(buffer)
      [] value.k = "some" -> Serialize(buffer, value.v, binary_float)
      [] value.k = "newtype_struct" ->
            serialize_newtype_struct(buffer, value.v)
      [] value.k \in {"seq", "tuple", "tuple_struct"} ->
            serialize_seq(buffer, value.items, binary_float)
      [] value.k = "bytes" ->
            serialize_seq(buffer,
                [i \in 1..Len(value.bytes) |->
                    VInt("u8", IntOf(value.bytes[i]))],
                binary_float)
      [] value.k = "map" -> serialize_map(buffer, value.entries, binary_float)
      [] value.k = "struct" ->
            serialize_map(buffer,
                [i \in 1..Len(value.fields) |->
                    <<VStr(value.fields[i][1]), value.fields[i][2]>>],
                binary_float)
      [] value.k = "unit_variant" -> serialize_str(buffer, value.variant)
      [] value.k = "newtype_variant" ->
            serialize_newtype_variant(buffer, value.variant, value.v,
                                      binary_float)
      [] value.k = "tuple_variant" ->
            serialize_tuple_variant(buffer, value.variant, value.items,
                                    binary_float)
      [] value.k = "struct_variant" ->
            serialize_struct_variant(buffer, value.variant,
                [i \in 1..Len(value.fields) |->
                    <<VStr(value.fields[i][1]), value.fields[i][2]>>],
                binary_float)
      [] value.k = "failing" -> SerErr(buffer)

\* to_vec: default options, `?` hands an Err to the caller
to_vec(value) ==
    LET Returned(r) ==
            IF r.ok THEN [status |-> "Ok", buffer |-> r.buffer]
            ELSE [status |-> "Err", buffer |-> <<>>]
    IN  Returned(Serialize(<<>>, value, FALSE))

\* to_vec_with_options: unwrap() panics on an Err
to_vec_with_options(value, binary_float) ==
    LET Unwrapped(r) ==
            IF r.ok THEN [status |-> "Ok", buffer |-> r.buffer]
            ELSE [status |-> "Panic", buffer |-> <<>>]
    IN  Unwrapped(Serialize(<<>>, value, binary_float))

\* ------------------------------------------------------------------------
\* de.rs: Deserializer.  A reader is the sequence of bytes it will still
\* yield.  Every operation returns [err, et, val, rest]: err = "Ok" or the
\* Error variant ("Panic" for a failed assertion), et the element type an
\* UnexpectedType carries, val the value, rest the reader afterwards.
\* ------------------------------------------------------------------------
Ok(val, rest) == [err |-> "Ok", et |-> 0, val |-> val, rest |-> rest]
Err(kind, rest) == [err |-> kind, et |-> 0, val |-> VUnit, rest |-> rest]
UnexpectedType(t, rest) ==
    [err |-> "UnexpectedType", et |-> t, val |-> VUnit, rest |-> rest]

\* json.rs: without the serde_json5 feature parse_json5 is the stub that
\* returns Json5Error
Json5Feature == FALSE

\* read_header taking the 0xE marker for a 2-byte size
bytes_to_read_short(upper_four_bits) ==
    CASE upper_four_bits <= 11 -> 0
      [] upper_four_bits = 12 -> 1
      [] upper_four_bits = 13 -> 2
      [] upper_four_bits = 14 -> 2
      [] upper_four_bits = 15 -> 8

\* read_header: the number of size bytes the upper four bits announce
bytes_to_read(upper_four_bits) ==
    CASE upper_four_bits <= 11 -> 0
      [] upper_four_bits = 12 -> 1
      [] upper_four_bits = 13 -> 2
      [] upper_four_bits = 14 -> 4
      [] upper_four_bits = 15 -> 8

\* Deserializer::read_header
read_header(reader) ==
    LET Sized(upper_four_bits, n, after) ==
            IF n = 0
            THEN Ok(Header(ElementTypeFrom(reader[1]),
                           U64FromNat(upper_four_bits)), after)
            ELSE IF Len(after) < n
            THEN Err("Io", <<>>)
            ELSE Ok(Header(ElementTypeFrom(reader[1]),
                           from_be_bytes(Repeat(0, 8 - n) \o TakeN(after, n))),
                    DropN(after, n))
    IN  IF Len(reader) = 0 THEN Err("Empty", reader)
        ELSE Sized(reader[1] \div 16, bytes_to_read(reader[1] \div 16),
                   Tail(reader))

\* Deserializer::reader_with_limit: the bytes a Take of payload_size yields
reader_with_limit(reader, header) ==
    IF U64IsSmall(header.payload_size)
    THEN TakeN(reader, U64ToNat(header.payload_size))
    ELSE reader

\* what the underlying reader still holds once a reader_with_limit over it
\* has been read down to limited_rest
after_limit(reader, header, limited_rest) ==
    IF U64IsSmall(header.payload_size)
    THEN limited_rest \o DropN(reader, U64ToNat(header.payload_size))
    ELSE limited_rest

\* Read::read_exact of payload_size bytes
payload_available(reader, header) ==
    U64IsSmall(header.payload_size)
        /\ U64ToNat(header.payload_size) <= Len(reader)

\* std::str::from_utf8 validity: lead bytes and continuation bytes
RECURSIVE IsUtf8(_)
IsUtf8(b) ==
    IF b = <<>> THEN TRUE
    ELSE LET n == CASE b[1] < 128 -> 1
                    [] b[1] \in 194..223 -> 2
                    [] b[1] \in 224..239 -> 3
                    [] b[1] \in 240..244 -> 4
                    [] OTHER -> 0
         IN  /\ n > 0
             /\ Len(b) >= n
             /\ \A i \in 2..n : b[i] \in 128..191
             /\ IsUtf8(DropN(b, n))

\* Deserializer::read_payload_string
read_payload_string(reader, header) ==
    LET ReadToString(limited, rest) ==
            IF ~IsUtf8(limited) THEN Err("Io", rest)
            ELSE IF ~payload_available(reader, header) THEN Err("Panic", rest)
            ELSE Ok(VStr(limited), rest)
    IN  ReadToString(reader_with_limit(reader, header),
                     after_limit(reader, header, <<>>))

\* drop_payload that stops without an error where the reader ends
drop_payload_lenient(reader, header) ==
    IF U64IsSmall(header.payload_size)
    THEN Ok(header.element_type, DropN(reader, U64ToNat(header.payload_size)))
    ELSE Ok(header.element_type, <<>>)

\* Deserializer::drop_payload
drop_payload(reader, header) ==
    IF payload_available(reader, header)
    THEN Ok(header.element_type, DropN(reader, U64ToNat(header.payload_size)))
    ELSE Err("Io", <<>>)

\* Deserializer::read_bool
read_bool(reader, header) ==
    LET Dropped(d) ==
            IF d.err # "Ok" THEN d
            ELSE CASE header.element_type = ETTrue -> Ok(VBool(TRUE), d.rest)
                   [] header.element_type = ETFalse -> Ok(VBool(FALSE), d.rest)
                   [] OTHER -> UnexpectedType(header.element_type, d.rest)
    IN  Dropped(drop_payload(reader, header))

\* Deserializer::read_null
read_null(reader, header) ==
    LET Dropped(d) ==
            IF d.err # "Ok" THEN d
            ELSE IF header.element_type = ETNull THEN Ok(VUnit, d.rest)
            ELSE UnexpectedType(header.element_type, d.rest)
    IN  Dropped(drop_payload(reader, header))

\* x + n for a u64 x and a small n: the wrapped sum, and whether the
\* addition overflowed 64 bits
U64AddNat(x, n) ==
    LET t4 == x[4] + n
        t3 == x[3] + (t4 \div Limb)
        t2 == x[2] + (t3 \div Limb)
        t1 == x[1] + (t2 \div Limb)
    IN  [v |-> <<t1 % Limb, t2 % Limb, t3 % Limb, t4 % Limb>>,
         overflow |-> t1 \div Limb > 0]

\* what is_jsonb returns: the Header, or the Error variant and its message
JsonbOk(h) == [err |-> "Ok", msg |-> "", header |-> h]
JsonbErr(kind, msg) ==
    [err |-> kind, msg |-> msg, header |-> Header(ETNull, <<0, 0, 0, 0>>)]

\* header.rs is_jsonb.  usize is the 64-bit usize; the sum
\* 1 + bytes_to_read + payload_size as usize panics on overflow in a build
\* with overflow checks and wraps in one without
is_jsonb(data, overflow_checks) ==
    LET Compared(first_byte, payload_size, total) ==
            IF total.overflow /\ overflow_checks THEN JsonbErr("Panic", "")
            ELSE IF U64FromNat(Len(data)) # total.v
            THEN JsonbErr("Message",
                          "data length does not match header payload size")
            ELSE JsonbOk(Header(ElementTypeFrom(first_byte), payload_size))
        Checked(first_byte, n, payload_size) ==
            Compared(first_byte, payload_size, U64AddNat(payload_size, 1 + n))
        Sized(first_byte, upper_four_bits, n) ==
            IF n = 0
            THEN Checked(first_byte, n, U64FromNat(upper_four_bits))
            ELSE IF Len(data) < 1 + n
            THEN JsonbErr("Message", "not enough bytes to for header")
            ELSE Checked(first_byte, n,
                         from_be_bytes(Repeat(0, 8 - n) \o Slice(data, 1, 1 + n)))
        Marked(first_byte, upper_four_bits) ==
            Sized(first_byte, upper_four_bits,
                  CASE upper_four_bits <= 11 -> 0
                    [] upper_four_bits = 12 -> 1
                    [] upper_four_bits = 13 -> 2
                    [] upper_four_bits = 14 -> 4
                    [] upper_four_bits = 15 -> 8)
    IN  IF Len(data) = 0 THEN JsonbErr("Empty", "")
        ELSE Marked(data[1], data[1] \div 16)

\* ------------------------------------------------------------------------
\* json.rs: the JSON text parsers the decoder hands number and string
\* payloads to (serde_json::from_reader / from_slice)
\* ------------------------------------------------------------------------
IsDigit(b) == b \in 48..57
IsWs(b) == b \in {32, 9, 10, 13}

RECURSIVE StripLeadingWs(_)
StripLeadingWs(t) ==
    IF t # <<>> /\ IsWs(t[1]) THEN StripLeadingWs(Tail(t)) ELSE t

RECURSIVE StripTrailingWs(_)
StripTrailingWs(t) ==
    IF t # <<>> /\ IsWs(t[Len(t)])
    THEN StripTrailingWs(SubSeq(t, 1, Len(t) - 1)) ELSE t

\* ten times x plus the digit d, with the overflow of u64 arithmetic
MulAdd10(x, d) ==
    LET t4 == x[4] * 10 + d
        t3 == x[3] * 10 + (t4 \div Limb)
        t2 == x[2] * 10 + (t3 \div Limb)
        t1 == x[1] * 10 + (t2 \div Limb)
    IN  [v |-> <<t1 % Limb, t2 % Limb, t3 % Limb, t4 % Limb>>,
         overflow |-> t1 \div Limb > 0]

\* the digits of an integer literal accumulated into a u64
RECURSIVE ParseDigits(_, _)
ParseDigits(digits, acc) ==
    IF digits = <<>> THEN [v |-> acc, overflow |-> FALSE]
    ELSE LET m == MulAdd10(acc, Head(digits) - 48)
         IN  IF m.overflow THEN m ELSE ParseDigits(Tail(digits), m.v)

\* -?(0|[1-9][0-9]*)
IsIntText(t) ==
    LET digits == IF t # <<>> /\ t[1] = 45 THEN Tail(t) ELSE t
    IN  /\ digits # <<>>
        /\ \A i \in 1..Len(digits) : IsDigit(digits[i])
        /\ (Len(digits) > 1 => digits[1] # 48)

\* the range of an integer type as <<largest magnitude of a negative value,
\* largest magnitude of a non-negative value>>
IntRange(ty) ==
    CASE ty = "u8" -> << <<0, 0, 0, 0>>, <<0, 0, 0, 255>> >>
      [] ty = "u16" -> << <<0, 0, 0, 0>>, <<0, 0, 0, 65535>> >>
      [] ty = "u32" -> << <<0, 0, 0, 0>>, <<0, 0, 65535, 65535>> >>
      [] ty = "u64" -> << <<0, 0, 0, 0>>, <<65535, 65535, 65535, 65535>> >>
      [] ty = "i8" -> << <<0, 0, 0, 128>>, <<0, 0, 0, 127>> >>
      [] ty = "i16" -> << <<0, 0, 0, 32768>>, <<0, 0, 0, 32767>> >>
      [] ty = "i32" -> << <<0, 0, 32768, 0>>, <<0, 0, 32767, 65535>> >>
      [] ty = "i64" -> << <<32768, 0, 0, 0>>, <<32767, 65535, 65535, 65535>> >>

\* T::try_from(n).is_ok() for the integer type ty
IntFits(ty, n) ==
    IF n.neg THEN U64Leq(n.mag, IntRange(ty)[1])
    ELSE U64Leq(n.mag, IntRange(ty)[2])

\* the index of a decimal text in FloatTable, 0 for a float outside it
FloatId(text) ==
    IF \E i \in 1..Len(FloatTable) : FloatTable[i].text = text
    THEN CHOOSE i \in 1..Len(FloatTable) : FloatTable[i].text = text
    ELSE 0

\* -?digits(.digits)?: a decimal literal
IsFloatText(t) ==
    LET body == IF t # <<>> /\ t[1] = 45 THEN Tail(t) ELSE t
        dots == {i \in 1..Len(body) : body[i] = 46}
    IN  /\ body # <<>>
        /\ \A i \in 1..Len(body) : IsDigit(body[i]) \/ body[i] = 46
        /\ Cardinality(dots) <= 1
        /\ \A i \in dots : i > 1 /\ i < Len(body)
        /\ (Len(body) > 1 /\ body[1] = 48 => body[2] = 46)

\* parse_json::<T> for an integer type T: the value, or "JsonError"
parse_json_int(text, ty) ==
    LET Checked(t, neg, p) ==
            IF ~IsIntText(t) \/ p.overflow THEN [ok |-> FALSE, val |-> VUnit]
            ELSE IF neg /\ p.v = <<0, 0, 0, 0>>
            THEN [ok |-> FALSE, val |-> VUnit]
            ELSE IF ~IntFits(ty, [neg |-> neg, mag |-> p.v])
            THEN [ok |-> FALSE, val |-> VUnit]
            ELSE [ok |-> TRUE, val |-> VInt(ty, [neg |-> neg, mag |-> p.v])]
        Signed(t, neg) ==
            Checked(t, neg,
                    ParseDigits(IF neg THEN Tail(t) ELSE t, <<0, 0, 0, 0>>))
        Trimmed(t) == Signed(t, t # <<>> /\ t[1] = 45)
    IN  Trimmed(StripTrailingWs(StripLeadingWs(text)))

\* parse_json::<T> for a float type T of width w
parse_json_float(text, w) ==
    LET Trimmed(t) ==
            IF IsFloatText(t) THEN [ok |-> TRUE, val |-> VFloat(w, FloatId(t))]
            ELSE [ok |-> FALSE, val |-> VUnit]
    IN  Trimmed(StripTrailingWs(StripLeadingWs(text)))

\* parse_json::<T>: T is [int |-> ty] or [float |-> w]
parse_json(text, T) ==
    IF "int" \in DOMAIN T THEN parse_json_int(text, T.int)
    ELSE parse_json_float(text, T.float)

\* parse_json_slice: the same parser over a slice
parse_json_slice(text, T) == parse_json(text, T)

HexVal(b) ==
    CASE b \in 48..57 -> b - 48
      [] b \in 65..70 -> b - 55
      [] b \in 97..102 -> b - 87
      [] OTHER -> -1

\* the UTF-8 bytes of a code point below 0x10000
EncodeUtf8(cp) ==
    IF cp < 128 THEN <<cp>>
    ELSE IF cp < 2048 THEN <<192 + (cp \div 64), 128 + (cp % 64)>>
    ELSE <<224 + (cp \div 4096), 128 + ((cp \div 64) % 64), 128 + (cp % 64)>>

\* the body of a JSON string literal unescaped; ok = FALSE for a literal the
\* parser rejects (a bare quote or control character, a bad escape)
RECURSIVE JsonUnescape(_)
JsonUnescape(t) ==
    IF t = <<>> THEN [ok |-> TRUE, out |-> <<>>]
    ELSE IF t[1] = 34 \/ t[1] < 32 THEN [ok |-> FALSE, out |-> <<>>]
    ELSE IF t[1] # 92
    THEN LET r == JsonUnescape(Tail(t))
         IN  [ok |-> r.ok, out |-> <<t[1]>> \o r.out]
    ELSE IF Len(t) < 2 THEN [ok |-> FALSE, out |-> <<>>]
    ELSE IF t[2] = 117
    THEN LET h == [i \in 1..4 |-> IF Len(t) >= 2 + i THEN HexVal(t[2 + i])
                                  ELSE -1]
             cp == h[1] * 4096 + h[2] * 256 + h[3] * 16 + h[4]
             r == JsonUnescape(DropN(t, 6))
         IN  IF (\E i \in 1..4 : h[i] < 0) \/ cp \in 55296..57343
             THEN [ok |-> FALSE, out |-> <<>>]
             ELSE [ok |-> r.ok, out |-> EncodeUtf8(cp) \o r.out]
    ELSE LET c == CASE t[2] = 110 -> 10
                    [] t[2] = 116 -> 9
                    [] t[2] = 114 -> 13
                    [] t[2] = 98 -> 8
                    [] t[2] = 102 -> 12
                    [] t[2] \in {34, 47, 92} -> t[2]
                    [] OTHER -> -1
             r == JsonUnescape(DropN(t, 2))
         IN  IF c < 0 THEN [ok |-> FALSE, out |-> <<>>]
             ELSE [ok |-> r.ok, out |-> <<c>> \o r.out]

\* parse_json::<String> on the quoted payload
parse_json_string(text) ==
    LET Unescaped(r) ==
            IF IsUtf8(text) /\ r.ok THEN [ok |-> TRUE, val |-> VStr(r.out)]
            ELSE [ok |-> FALSE, val |-> VUnit]
    IN  Unescaped(JsonUnescape(text))

\* Deserializer::read_json_compatible
read_json_compatible(reader, header, T) ==
    LET MapErr(p, rest) ==
            IF p.ok THEN Ok(p.val, rest) ELSE Err("JsonError", rest)
    IN  IF U64Leq(header.payload_size, U64FromNat(8))
        THEN IF ~payload_available(reader, header) THEN Err("Io", <<>>)
             ELSE MapErr(parse_json_slice(
                             TakeN(reader, U64ToNat(header.payload_size)), T),
                         DropN(reader, U64ToNat(header.payload_size)))
        ELSE MapErr(parse_json(reader_with_limit(reader, header), T),
                    after_limit(reader, header, <<>>))

\* Deserializer::read_json5_compatible
read_json5_compatible(reader, header, T) ==
    LET MapErr(p, rest) ==
            IF p.ok THEN Ok(p.val, rest) ELSE Err("Json5Error", rest)
    IN  IF ~Json5Feature THEN Err("Json5Error", reader)
        ELSE MapErr(parse_json(reader_with_limit(reader, header), T),
                    after_limit(reader, header, <<>>))

\* Deserializer::read_json_compatible_string
read_json_compatible_string(reader, header) ==
    LET MapErr(p, rest) ==
            IF p.ok THEN Ok(p.val, rest) ELSE Err("JsonError", rest)
    IN  MapErr(parse_json_string(reader_with_limit(reader, header)),
               after_limit(reader, header, <<>>))

\* Deserializer::read_json5_compatible_string
read_json5_compatible_string(reader, header) ==
    LET MapErr(p, rest) ==
            IF p.ok THEN Ok(p.val, rest) ELSE Err("Json5Error", rest)
    IN  IF ~Json5Feature THEN Err("Json5Error", reader)
        ELSE MapErr(parse_json_string(reader_with_limit(reader, header)),
                    after_limit(reader, header, <<>>))

\* read_integer taking a Float element as well
read_integer_lenient(reader, header, ty) ==
    CASE header.element_type \in {ETInt, ETFloat} ->
            read_json_compatible(reader, header, [int |-> ty])
      [] header.element_type = ETInt5 ->
            read_json5_compatible(reader, header, [int |-> ty])
      [] OTHER -> UnexpectedType(header.element_type, reader)

\* Deserializer::read_integer
read_integer(reader, header, ty) ==
    CASE header.element_type = ETInt ->
            read_json_compatible(reader, header, [int |-> ty])
      [] header.element_type = ETInt5 ->
            read_json5_compatible(reader, header, [int |-> ty])
      [] OTHER -> UnexpectedType(header.element_type, reader)

\* Deserializer::read_string
read_string(reader, header) ==
    CASE header.element_type \in {ETText, ETTextRaw} ->
            read_payload_string(reader, header)
      [] header.element_type = ETTextJ ->
            read_json_compatible_string(reader, header)
      [] header.element_type = ETText5 ->
            read_json5_compatible_string(reader, header)
      [] OTHER -> UnexpectedType(header.element_type, reader)

\* Deserializer::read_float
read_float(reader, header, w) ==
    CASE header.element_type \in {ETInt, ETFloat} ->
            read_json_compatible(reader, header, [float |-> w])
      [] header.element_type \in {ETInt5, ETFloat5} ->
            read_json5_compatible(reader, header, [float |-> w])
      [] OTHER -> UnexpectedType(header.element_type, reader)

\* ------------------------------------------------------------------------
\* The types a caller asks the decoder for.  A type names the Deserializer
\* method its Deserialize implementation calls and the visitor it passes.
\* ------------------------------------------------------------------------
TBool == [t |-> "bool"]
TUnit == [t |-> "unit"]
TUnitStruct == [t |-> "unit_struct"]
TInt(ty) == [t |-> "int", ty |-> ty]
TFloat(w) == [t |-> "float", w |-> w]
TChar == [t |-> "char"]
TString == [t |-> "string"]
TOption(of) == [t |-> "option", of |-> of]
TByteBuf == [t |-> "byte_buf"]
TSeq(of) == [t |-> "seq", of |-> of]
TTuple(items) == [t |-> "tuple", items |-> items]
TTupleStruct(items) == [t |-> "tuple_struct", items |-> items]
TNewtypeStruct(of) == [t |-> "newtype_struct", of |-> of]
TMap(key, val) == [t |-> "map", key |-> key, val |-> val]
\* fields: a sequence of <<name, type>>
TStruct(fields) == [t |-> "struct", fields |-> fields]
\* variants: a sequence of VariantUnit / VariantNewtype / ...
TEnum(variants) == [t |-> "enum", variants |-> variants]
VariantUnit(name) == [name |-> name, shape |-> "unit"]
VariantNewtype(name, of) == [name |-> name, shape |-> "newtype", of |-> of]
VariantTuple(name, items) ==
    [name |-> name, shape |-> "tuple", items |-> items]
VariantStruct(name, fields) ==
    [name |-> name, shape |-> "struct", fields |-> fields]
\* a self-describing target such as serde_json::Value (deserialize_any)
TAny == [t |-> "any"]
\* serde::de::IgnoredAny
TIgnored == [t |-> "ignored"]

IntTypes == <<"u8", "i8", "u16", "i16", "u32", "i32", "u64", "i64">>

\* the Int branch of deserialize_any_with_header: the first type of the
\* try_from chain that holds the i64
NarrowInt(n) ==
    LET i == CHOOSE i \in 1..8 :
                 /\ IntFits(IntTypes[i], n)
                 /\ \A j \in 1..(i - 1) : ~IntFits(IntTypes[j], n)
    IN  VInt(IntTypes[i], n)

\* Deserializer::with_header: the 9-byte header chained before the reader
\* with_header pushing back the element type alone, the size left at zero
with_header_sizeless(reader, header) ==
    HeaderSerialize(Header(header.element_type, U64FromNat(0))) \o reader

with_header(reader, header) == HeaderSerialize(header) \o reader

\* what the reader under a with_header chain still holds once the chain
\* has been read down to chain_rest
after_with_header(reader, chain_rest) ==
    IF Len(chain_rest) > Len(reader) THEN reader ELSE chain_rest

\* the position of a name among <<name, ...>> entries, 0 if absent
IndexOfName(names, name) ==
    IF \E i \in 1..Len(names) : names[i] = name
    THEN CHOOSE i \in 1..Len(names) : names[i] = name
    ELSE 0

RECURSIVE Deserialize(_, _)
RECURSIVE VecVisitSeq(_, _, _)
RECURSIVE TupleVisitSeq(_, _, _)
RECURSIVE MapVisitMap(_, _, _, _)
RECURSIVE StructVisitMap(_, _, _)

\* SeqAccess::next_element_seed (MapAccess::next_key_seed): val is
\* <<present, value>>; an Err(Empty) of the element is Ok(None)
next_element_seed(T, reader) ==
    LET Element(d) ==
            CASE d.err = "Ok" -> Ok(<<TRUE, d.val>>, d.rest)
              [] d.err = "Empty" -> Ok(<<FALSE, VUnit>>, d.rest)
              [] OTHER -> d
    IN  Element(Deserialize(T, reader))

\* MapAccess::next_value_seed: None becomes Err(Empty)
next_value_seed(T, reader) ==
    LET Value(e) ==
            IF e.err # "Ok" THEN e
            ELSE IF ~e.val[1] THEN Err("Empty", e.rest)
            ELSE Ok(e.val[2], e.rest)
    IN  Value(next_element_seed(T, reader))

\* visit_seq of Vec<T> (and of a self-describing value): next_element until
\* None
VecVisitSeq(T, reader, acc) ==
    LET Next_element(e) ==
            IF e.err # "Ok" THEN e
            ELSE IF ~e.val[1] THEN Ok(acc, e.rest)
            ELSE VecVisitSeq(T, e.rest, Append(acc, e.val[2]))
    IN  Next_element(next_element_seed(T, reader))

\* visit_seq of a tuple or tuple struct: one next_element per item, a
\* missing one is invalid_length; nothing is read after the last item
TupleVisitSeq(types, reader, acc) ==
    LET Next_element(e) ==
            IF e.err # "Ok" THEN e
            ELSE IF ~e.val[1] THEN Err("Message", e.rest)
            ELSE TupleVisitSeq(Tail(types), e.rest, Append(acc, e.val[2]))
    IN  IF types = <<>> THEN Ok(acc, reader)
        ELSE Next_element(next_element_seed(Head(types), reader))

\* visit_map of a map (and of a self-describing value): next_key until
\* None, next_value after each key
MapVisitMap(K, V, reader, acc) ==
    LET Next_value(key, val) ==
            IF val.err # "Ok" THEN val
            ELSE MapVisitMap(K, V, val.rest,
                             Append(acc, <<key.val[2], val.val>>))
        Next_key(key) ==
            IF key.err # "Ok" THEN key
            ELSE IF ~key.val[1] THEN Ok(acc, key.rest)
            ELSE Next_value(key, next_value_seed(V, key.rest))
    IN  Next_key(next_element_seed(K, reader))

\* visit_map of a derived struct; slots[i] is <<seen, value>> of field i.
\* An unknown key skips its value as IgnoredAny, a key seen twice is an
\* error, a field never seen is None if optional and an error otherwise.
StructVisitMap(fields, reader, slots) ==
    LET missing == {j \in 1..Len(fields) :
                        ~slots[j][1] /\ fields[j][2].t # "option"}
        Next_value(i, val) ==
            IF val.err # "Ok" THEN val
            ELSE StructVisitMap(fields, val.rest,
                     IF i = 0 THEN slots
                     ELSE [slots EXCEPT ![i] = <<TRUE, val.val>>])
        Field(key, i) ==
            IF i # 0 /\ slots[i][1] THEN Err("Message", key.rest)
            ELSE Next_value(i,
                     next_value_seed(IF i = 0 THEN TIgnored ELSE fields[i][2],
                                     key.rest))
        Next_key(key) ==
            IF key.err # "Ok" THEN key
            ELSE IF ~key.val[1]
            THEN IF missing # {} THEN Err("Message", key.rest)
                 ELSE Ok([j \in 1..Len(fields) |->
                            <<fields[j][1],
                              IF slots[j][1] THEN slots[j][2] ELSE VNone>>],
                         key.rest)
            ELSE Field(key,
                       IndexOfName([j \in 1..Len(fields) |-> fields[j][1]],
                                   key.val[2].utf8))
    IN  Next_key(next_element_seed(TString, reader))

\* the visitor's visit_seq over a reader, by the type that owns the visitor
VisitSeq(T, reader) ==
    LET Built(r) ==
            IF r.err # "Ok" THEN r
            ELSE CASE T.t \in {"seq", "any"} -> Ok(VSeq(r.val), r.rest)
                   [] T.t = "byte_buf" ->
                        Ok(VBytes([j \in 1..Len(r.val) |->
                                      U64ToNat(r.val[j].n.mag)]), r.rest)
                   [] T.t = "tuple" -> Ok(VTuple(r.val), r.rest)
                   [] T.t = "tuple_struct" -> Ok(VTupleStruct(r.val), r.rest)
    IN  IF T.t \in {"tuple", "tuple_struct"}
        THEN Built(TupleVisitSeq(T.items, reader, <<>>))
        ELSE Built(VecVisitSeq(CASE T.t = "seq" -> T.of
                                 [] T.t = "any" -> TAny
                                 [] T.t = "byte_buf" -> TInt("u8"),
                               reader, <<>>))

\* the visitor's visit_map over a reader
VisitMap(T, reader) ==
    LET Built(r) ==
            IF r.err # "Ok" THEN r
            ELSE IF T.t = "struct" THEN Ok(VStruct(r.val), r.rest)
            ELSE Ok(VMap(r.val), r.rest)
    IN  IF T.t = "struct"
        THEN Built(StructVisitMap(T.fields, reader,
                       [j \in 1..Len(T.fields) |-> <<FALSE, VUnit>>]))
        ELSE Built(MapVisitMap(IF T.t = "any" THEN TString ELSE T.key,
                               IF T.t = "any" THEN TAny ELSE T.val,
                               reader, <<>>))

\* deserialize_seq (deserialize_tuple, deserialize_tuple_struct,
\* deserialize_bytes, deserialize_byte_buf)
deserialize_seq(T, reader) ==
    LET Visited(head, r) ==
            [r EXCEPT !.rest = after_limit(head.rest, head.val, r.rest)]
        WithHeader(head) ==
            IF head.err # "Ok" THEN head
            ELSE Visited(head,
                         VisitSeq(T, reader_with_limit(head.rest, head.val)))
    IN  WithHeader(read_header(reader))

\* deserialize_map (deserialize_struct)
deserialize_map(T, reader) ==
    LET Visited(head, r) ==
            [r EXCEPT !.rest = after_limit(head.rest, head.val, r.rest)]
        WithHeader(head) ==
            IF head.err # "Ok" THEN head
            ELSE Visited(head,
                         VisitMap(T, reader_with_limit(head.rest, head.val)))
    IN  WithHeader(read_header(reader))

\* Deserializer::deserialize_any_with_header, for a self-describing target
deserialize_any_with_header(reader, header) ==
    LET Narrowed(i) ==
            IF i.err # "Ok" THEN i ELSE Ok(NarrowInt(i.val.n), i.rest)
        Typed(et) ==
            CASE et = ETNull -> read_null(reader, header)
              [] et \in {ETTrue, ETFalse} -> read_bool(reader, header)
              [] et \in {ETFloat, ETFloat5} -> read_float(reader, header, 64)
              [] et \in {ETInt, ETInt5} ->
                    Narrowed(read_integer(reader, header, "i64"))
              [] et = ETArray -> VisitSeq(TAny, reader)
              [] et = ETObject -> VisitMap(TAny, reader)
              [] et \in {ETText, ETTextJ, ETText5, ETTextRaw} ->
                    read_string(reader, header)
              \* de.rs names code 0xF Reserved15
              [] et \in {ETReserved13, ETReserved14, ETBinaryFloat} ->
                    UnexpectedType(et, reader)
    IN  Typed(header.element_type)

\* deserialize_any
deserialize_any(reader) ==
    LET WithHeader(header) ==
            IF header.err # "Ok" THEN header
            ELSE deserialize_any_with_header(header.rest, header.val)
    IN  WithHeader(read_header(reader))

\* deserialize_bool
deserialize_bool(reader) ==
    LET WithHeader(header) ==
            IF header.err # "Ok" THEN header
            ELSE read_bool(header.rest, header.val)
    IN  WithHeader(read_header(reader))

\* deserialize_i8 .. deserialize_u64
deserialize_int(ty, reader) ==
    LET WithHeader(header) ==
            IF header.err # "Ok" THEN header
            ELSE read_integer(header.rest, header.val, ty)
    IN  WithHeader(read_header(reader))

\* deserialize_f32 / deserialize_f64
deserialize_float(w, reader) ==
    LET WithHeader(header) ==
            IF header.err # "Ok" THEN header
            ELSE read_float(header.rest, header.val, w)
    IN  WithHeader(read_header(reader))

\* deserialize_unit (deserialize_unit_struct)
deserialize_unit(reader) ==
    LET WithHeader(header) ==
            IF header.err # "Ok" THEN header
            ELSE read_null(header.rest, header.val)
    IN  WithHeader(read_header(reader))

\* deserialize_string (deserialize_str, deserialize_identifier)
deserialize_string(reader) ==
    LET WithHeader(header) ==
            IF header.err # "Ok" THEN header
            ELSE read_string(header.rest, header.val)
    IN  WithHeader(read_header(reader))

\* deserialize_char
deserialize_char(reader) ==
    LET Visit(s) ==
            IF s.err # "Ok" THEN s
            ELSE IF Len(s.val.utf8) # 1 THEN Err("Message", s.rest)
            ELSE Ok(VChar(s.val.utf8), s.rest)
        WithHeader(header) ==
            IF header.err # "Ok" THEN header
            ELSE Visit(read_string(header.rest, header.val))
    IN  WithHeader(read_header(reader))

\* deserialize_ignored_any
deserialize_ignored_any(reader) ==
    LET Dropped(d) == IF d.err # "Ok" THEN d ELSE Ok(VUnit, d.rest)
        WithHeader(header) ==
            IF header.err # "Ok" THEN header
            ELSE Dropped(drop_payload(header.rest, header.val))
    IN  WithHeader(read_header(reader))

\* deserialize_option
deserialize_option(of, reader) ==
    LET Visit_some(header, some) ==
            [some EXCEPT
                !.val = IF some.err = "Ok" THEN VSome(some.val) ELSE VUnit,
                !.rest = after_with_header(header.rest, some.rest)]
        WithHeader(header) ==
            IF header.err # "Ok" THEN header
            ELSE IF header.val.element_type = ETNull
            THEN Ok(VNone, header.rest)
            ELSE Visit_some(header,
                     Deserialize(of, with_header(header.rest, header.val)))
    IN  WithHeader(read_header(reader))

\* visit_enum of a derived enum over the reader of an Object: variant_seed
\* reads the key, then the variant's shape picks unit_variant,
\* newtype_variant_seed, tuple_variant or struct_variant
VisitEnum(variants, reader) ==
    LET Built(v, r) ==
            IF r.err # "Ok" THEN r
            ELSE CASE v.shape = "newtype" ->
                        Ok(VNewtypeVariant(v.name, r.val), r.rest)
                   [] v.shape = "tuple" ->
                        Ok(VTupleVariant(v.name, r.val.items), r.rest)
                   [] v.shape = "struct" ->
                        Ok(VStructVariant(v.name, r.val.fields), r.rest)
        Variant(key, v) ==
            CASE v.shape = "unit" -> Ok(VUnitVariant(v.name), key.rest)
              [] v.shape = "newtype" ->
                    Built(v, Deserialize(v.of, key.rest))
              [] v.shape = "tuple" ->
                    Built(v, deserialize_seq(TTuple(v.items), key.rest))
              [] v.shape = "struct" ->
                    Built(v, deserialize_map(TStruct(v.fields), key.rest))
        Variant_seed(key, i) ==
            IF i = 0 THEN Err("Message", key.rest)
            ELSE Variant(key, variants[i])
        Key(key) ==
            IF key.err # "Ok" THEN key
            ELSE Variant_seed(key,
                    IndexOfName([j \in 1..Len(variants) |-> variants[j].name],
                                key.val.utf8))
    IN  Key(deserialize_string(reader))

\* visit_enum over a variant name alone (String::into_deserializer): only
\* a unit variant can be built from it
VisitEnumStr(variants, name, rest) ==
    LET Variant_seed(i) ==
            IF i = 0 THEN Err("Message", rest)
            ELSE IF variants[i].shape # "unit" THEN Err("Message", rest)
            ELSE Ok(VUnitVariant(name), rest)
    IN  Variant_seed(IndexOfName(
            [j \in 1..Len(variants) |-> variants[j].name], name))

\* deserialize_enum returning the visitor's result without the read that
\* looks for bytes left in the Object
deserialize_enum_unchecked(variants, reader) ==
    LET Seeded(s) ==
            IF s.err # "Ok" THEN s
            ELSE VisitEnumStr(variants, s.val.utf8, s.rest)
        Visited(header, r) ==
            [r EXCEPT !.rest = after_limit(header.rest, header.val, <<>>)]
        Typed(header, et) ==
            CASE et \in {ETText, ETTextJ, ETText5, ETTextRaw} ->
                    Seeded(read_string(header.rest, header.val))
              [] et = ETObject ->
                    Visited(header,
                        VisitEnum(variants,
                                  reader_with_limit(header.rest, header.val)))
              [] OTHER -> UnexpectedType(et, header.rest)
        WithHeader(header) ==
            IF header.err # "Ok" THEN header
            ELSE Typed(header, header.val.element_type)
    IN  WithHeader(read_header(reader))

\* deserialize_enum
deserialize_enum(variants, reader) ==
    LET Seeded(s) ==
            IF s.err # "Ok" THEN s
            ELSE VisitEnumStr(variants, s.val.utf8, s.rest)
        Visited(header, r) ==
            IF r.rest = <<>>
            THEN [r EXCEPT !.rest = after_limit(header.rest, header.val, <<>>)]
            ELSE Err("TrailingCharacters",
                     after_limit(header.rest, header.val, Tail(r.rest)))
        Typed(header, et) ==
            CASE et \in {ETText, ETTextJ, ETText5, ETTextRaw} ->
                    Seeded(read_string(header.rest, header.val))
              [] et = ETObject ->
                    Visited(header,
                        VisitEnum(variants,
                                  reader_with_limit(header.rest, header.val)))
              [] OTHER -> UnexpectedType(et, header.rest)
        WithHeader(header) ==
            IF header.err # "Ok" THEN header
            ELSE Typed(header, header.val.element_type)
    IN  WithHeader(read_header(reader))

\* T::deserialize(&mut deserializer)
Deserialize(T, reader) ==
    LET Unit_struct(r) == IF r.err = "Ok" THEN Ok(VUnitStruct, r.rest) ELSE r
        Newtype_struct(r) ==
            IF r.err = "Ok" THEN Ok(VNewtypeStruct(r.val), r.rest) ELSE r
    IN  CASE T.t = "bool" -> deserialize_bool(reader)
          [] T.t = "unit" -> deserialize_unit(reader)
          [] T.t = "unit_struct" -> Unit_struct(deserialize_unit(reader))
          [] T.t = "int" -> deserialize_int(T.ty, reader)
          [] T.t = "float" -> deserialize_float(T.w, reader)
          [] T.t = "char" -> deserialize_char(reader)
          [] T.t = "string" -> deserialize_string(reader)
          [] T.t = "option" -> deserialize_option(T.of, reader)
          [] T.t \in {"seq", "byte_buf", "tuple", "tuple_struct"} ->
                deserialize_seq(T, reader)
          [] T.t = "newtype_struct" ->
                Newtype_struct(Deserialize(T.of, reader))
          [] T.t \in {"map", "struct"} -> deserialize_map(T, reader)
          [] T.t = "enum" -> deserialize_enum(T.variants, reader)
          [] T.t = "any" -> deserialize_any(reader)
          [] T.t = "ignored" -> deserialize_ignored_any(reader)

\* from_slice: the value, or TrailingCharacters if the slice is not used up
from_slice(T, s) ==
    LET End(t) ==
            IF t.err # "Ok" THEN t
            ELSE IF t.rest = <<>> THEN t
            ELSE Err("TrailingCharacters", t.rest)
    IN  End(Deserialize(T, s))

\* from_reader: the value, or TrailingCharacters if one more byte can be
\* read
from_reader(T, reader) ==
    LET End(t) ==
            IF t.err # "Ok" THEN t
            ELSE IF Len(TakeN(t.rest, 1)) = 0 THEN t
            ELSE Err("TrailingCharacters", Tail(t.rest))
    IN  End(Deserialize(T, reader))

\* ------------------------------------------------------------------------
\* The values and inputs of the model
\* ------------------------------------------------------------------------
\* the longest string of 'x' and the longest byte sequence encoded; both
\* cross the 11/12 byte boundary between the 1- and 2-byte headers
MaxStrLen == 13
MaxBytesLen == 7
\* the largest number of bytes appended after a complete element
MaxTrailing == 1

\* "A", "B", "N", "T", "S", "x", "k", "id"
NameA == <<65>>
NameB == <<66>>
NameN == <<78>>
NameT == <<84>>
NameS == <<83>>
NameX == <<120>>
NameK == <<107>>
NameId == <<105, 100>>

\* enum E { A, B, N(i32), T(i32, f64), S { x: bool, id: f32 } }
EnumE ==
    TEnum(<< VariantUnit(NameA), VariantUnit(NameB),
             VariantNewtype(NameN, TInt("i32")),
             VariantTuple(NameT, <<TInt("i32"), TFloat(64)>>),
             VariantStruct(NameS, << <<NameX, TBool>>,
                                     <<NameId, TFloat(32)>> >>) >>)

\* struct P { id: i32, k: Option<String>, x: Vec<E> }
StructP ==
    TStruct(<< <<NameId, TInt("i32")>>, <<NameK, TOption(TString)>>,
               <<NameX, TSeq(EnumE)>> >>)

\* the values given to to_vec, each with the type it is decoded as
FixedValues ==
    << [v |-> VBool(TRUE), ty |-> TBool],
       [v |-> VBool(FALSE), ty |-> TBool],
       [v |-> VUnit, ty |-> TUnit],
       [v |-> VUnitStruct, ty |-> TUnitStruct],
       [v |-> VInt("u8", IntOf(42)), ty |-> TInt("u8")],
       [v |-> VInt("i8", IntOf(-128)), ty |-> TInt("i8")],
       [v |-> VInt("i64", [neg |-> FALSE,
                           mag |-> <<4386, 4340, 32233, 33045>>]),
        ty |-> TInt("i64")],
       [v |-> VInt("i64", [neg |-> TRUE, mag |-> <<32768, 0, 0, 0>>]),
        ty |-> TInt("i64")],
       [v |-> VInt("u64", [neg |-> FALSE,
                           mag |-> <<65535, 65535, 65535, 65535>>]),
        ty |-> TInt("u64")],
       [v |-> VFloat(32, 1), ty |-> TFloat(32)],
       [v |-> VFloat(64, 2), ty |-> TFloat(64)],
       [v |-> VFloat(32, 3), ty |-> TFloat(32)],
       [v |-> VFloat(64, 4), ty |-> TFloat(64)],
       [v |-> VChar(<<88>>), ty |-> TChar],
       [v |-> VChar(<<195, 169>>), ty |-> TChar],
       [v |-> VStr(<<104, 195, 169, 108, 108, 111, 32, 34, 113, 34, 32, 92>>),
        ty |-> TString],
       [v |-> VNone, ty |-> TOption(TInt("u8"))],
       [v |-> VSome(VInt("u8", IntOf(42))), ty |-> TOption(TInt("u8"))],
       [v |-> VSome(VSeq(<<VBool(TRUE)>>)), ty |-> TOption(TSeq(TBool))],
       [v |-> VSeq(<<>>), ty |-> TSeq(TString)],
       [v |-> VSeq(<<VBool(TRUE), VBool(FALSE)>>), ty |-> TSeq(TBool)],
       [v |-> VSeq(<<VSeq(<<VInt("i16", IntOf(1)), VInt("i16", IntOf(2))>>),
                     VSeq(<<VInt("i16", IntOf(3))>>)>>),
        ty |-> TSeq(TSeq(TInt("i16")))],
       [v |-> VSeq(<<VFloat(64, 2), VFloat(64, 4)>>), ty |-> TSeq(TFloat(64))],
       [v |-> VTuple(<<VSeq(<<VInt("u8", IntOf(1))>>), VInt("u8", IntOf(2))>>),
        ty |-> TTuple(<<TSeq(TInt("u8")), TInt("u8")>>)],
       [v |-> VTuple(<<VBool(TRUE), VInt("i32", IntOf(1)),
                       VInt("i32", IntOf(2))>>),
        ty |-> TTuple(<<TBool, TInt("i32"), TInt("i32")>>)],
       [v |-> VTupleStruct(<<VStr(<<104, 101, 108, 108, 111>>),
                             VFloat(32, 3)>>),
        ty |-> TTupleStruct(<<TString, TFloat(32)>>)],
       [v |-> VNewtypeStruct(VInt("u8", IntOf(42))),
        ty |-> TNewtypeStruct(TInt("u8"))],
       [v |-> VNewtypeStruct(VFloat(64, 2)),
        ty |-> TNewtypeStruct(TFloat(64))],
       [v |-> VMap(<<>>), ty |-> TMap(TString, TUnit)],
       [v |-> VMap(<< <<VStr(NameK), VBool(FALSE)>> >>),
        ty |-> TMap(TString, TBool)],
       [v |-> VMap(<< <<VStr(NameK), VFloat(32, 1)>>,
                      <<VStr(NameX), VFloat(32, 3)>> >>),
        ty |-> TMap(TString, TFloat(32))],
       [v |-> VStruct(<< <<NameX, VChar(<<88>>)>>,
                         <<Repeat(108, 19), VInt("u64", IntOf(42))>> >>),
        ty |-> TStruct(<< <<NameX, TChar>>,
                          <<Repeat(108, 19), TInt("u64")>> >>)],
       [v |-> VUnitVariant(NameA), ty |-> EnumE],
       [v |-> VUnitVariant(NameB), ty |-> EnumE],
       [v |-> VNewtypeVariant(NameN, VInt("i32", IntOf(42))), ty |-> EnumE],
       [v |-> VTupleVariant(NameT, <<VInt("i32", IntOf(-1)), VFloat(64, 2)>>),
        ty |-> EnumE],
       [v |-> VTupleVariant(NameT, <<VInt("i32", IntOf(1234567)),
                                     VFloat(64, 4)>>),
        ty |-> EnumE],
       [v |-> VStructVariant(NameS, << <<NameX, VBool(TRUE)>>,
                                       <<NameId, VFloat(32, 1)>> >>),
        ty |-> EnumE],
       [v |-> VStruct(<< <<NameId, VInt("i32", IntOf(7))>>,
                         <<NameK, VSome(VStr(NameK))>>,
                         <<NameX, VSeq(<<>>)>> >>),
        ty |-> StructP],
       [v |-> VSeq(<< VStruct(<< <<NameId, VInt("i32", IntOf(1))>>,
                                 <<NameK, VNone>>,
                                 <<NameX,
                                   VSeq(<< VUnitVariant(NameB),
                                           VTupleVariant(NameT,
                                              <<VInt("i32", IntOf(300)),
                                                VFloat(64, 4)>>),
                                           VStructVariant(NameS,
                                              << <<NameX, VBool(FALSE)>>,
                                                 <<NameId, VFloat(32, 3)>> >>)
                                        >>)>> >>) >>),
        ty |-> TSeq(StructP)],
       [v |-> VFailing, ty |-> TUnit],
       [v |-> VSeq(<<VBool(TRUE), VFailing>>), ty |-> TSeq(TBool)] >>

\* strings of 0..MaxStrLen 'x' and byte sequences of 0..MaxBytesLen ones
StrValues ==
    [n \in 1..(MaxStrLen + 1) |->
        [v |-> VStr(Repeat(120, n - 1)), ty |-> TString]]

BytesValues ==
    [n \in 1..(MaxBytesLen + 1) |->
        [v |-> VBytes(Repeat(1, n - 1)), ty |-> TByteBuf]]

\* integers of every width at and around the limits of the widths
IntValues ==
    << [v |-> VInt("u8", IntOf(0)), ty |-> TInt("u8")],
       [v |-> VInt("u8", IntOf(255)), ty |-> TInt("u8")],
       [v |-> VInt("i8", IntOf(-1)), ty |-> TInt("i8")],
       [v |-> VInt("i8", IntOf(127)), ty |-> TInt("i8")],
       [v |-> VInt("u16", IntOf(65535)), ty |-> TInt("u16")],
       [v |-> VInt("i16", IntOf(-32768)), ty |-> TInt("i16")],
       [v |-> VInt("u32", [neg |-> FALSE, mag |-> <<0, 0, 65535, 65535>>]),
        ty |-> TInt("u32")],
       [v |-> VInt("i32", [neg |-> TRUE, mag |-> <<0, 0, 32768, 0>>]),
        ty |-> TInt("i32")],
       [v |-> VInt("i32", IntOf(100200300)), ty |-> TInt("i32")],
       [v |-> VInt("u64", [neg |-> FALSE, mag |-> <<0, 1, 0, 0>>]),
        ty |-> TInt("u64")],
       [v |-> VInt("i64", [neg |-> FALSE,
                           mag |-> <<32767, 65535, 65535, 65535>>]),
        ty |-> TInt("i64")],
       [v |-> VInt("i64", IntOf(-10)), ty |-> TInt("i64")] >>

\* chars whose UTF-8 form is 1, 2, 3 and 4 bytes long: '"', U+00A3,
\* U+20AC, U+1F600
CharValues ==
    << [v |-> VChar(<<34>>), ty |-> TChar],
       [v |-> VChar(<<194, 163>>), ty |-> TChar],
       [v |-> VChar(<<226, 130, 172>>), ty |-> TChar],
       [v |-> VChar(<<240, 159, 152, 128>>), ty |-> TChar] >>

Values == FixedValues \o StrValues \o BytesValues \o IntValues \o CharValues

\* the bytes that may follow a complete element: a Null element, the
\* header of an Int element without its payload, a 9-byte header marker
TrailingBytes == {0, 19, 255}

RECURSIVE SeqsUpTo(_, _)
SeqsUpTo(S, n) ==
    IF n = 0 THEN {<<>>}
    ELSE LET shorter == SeqsUpTo(S, n - 1)
         IN  shorter \cup {Append(q, b) : q \in shorter, b \in S}

Trailing == SeqsUpTo(TrailingBytes, MaxTrailing)

\* the five header forms of de.rs's test_decoding_1: the header of an
\* element of type et and payload size n <= 11 written in form bytes
HeaderForms == {1, 2, 3, 5, 9}

HeaderInForm(et, n, form) ==
    IF form = 1 THEN <<n * 16 + et>>
    ELSE <<(CASE form = 2 -> 192 [] form = 3 -> 208
              [] form = 5 -> 224 [] form = 9 -> 240) + et>>
         \o Repeat(0, form - 2) \o <<n>>

\* payloads of at most 11 bytes: nothing, "1", "-2.5", "x", "\n" escaped,
\* two elements true false, a key "k" and the value false, eleven 'x'
FormPayloads ==
    << <<>>, <<49>>, <<45, 50, 46, 53>>, <<120>>, <<92, 110>>, <<1, 2>>,
       <<26, 107, 2>>, Repeat(120, 11) >>

\* the types the forms are decoded as
FormTypes ==
    << TAny, TBool, TUnit, TInt("u8"), TFloat(64), TString, TChar,
       TOption(TString), TSeq(TBool), TMap(TString, TBool), EnumE, TIgnored,
       TOption(TBool), TOption(TSeq(TBool)), TOption(TAny),
       TOption(TOption(TInt("u8"))) >>

\* payload sizes around the thresholds of the five header forms
BoundarySizes ==
    { <<0, 0, 0, 0>>, <<0, 0, 0, 1>>, <<0, 0, 0, 10>>, <<0, 0, 0, 11>>,
      <<0, 0, 0, 12>>, <<0, 0, 0, 254>>, <<0, 0, 0, 255>>, <<0, 0, 0, 256>>,
      <<0, 0, 0, 65534>>, <<0, 0, 0, 65535>>, <<0, 0, 1, 0>>,
      <<0, 0, 291, 17767>>, <<0, 0, 65535, 65534>>, <<0, 0, 65535, 65535>>,
      <<0, 1, 0, 0>>, <<0, 1, 0, 1>>, <<1, 0, 0, 0>>,
      <<65535, 65535, 65535, 65535>> }

\* inputs that are not well formed for the type they are decoded as:
\*   [ {"a": <no value>} ] as Vec<Map<String, bool>> and as any value,
\*   [ {} ] as Vec<E>, [ <Int of 2 bytes holding 1> ] as Vec<u8>,
\*   {"a": <no value>} as Map<String, bool>, [1] as (u8, u8),
\*   [ <Text of two 0xFF bytes> ] as Vec<String>,
\*   [ {"a": <no value>} ] as Vec<P>
MalformedInputs ==
    << [bytes |-> <<59, 44, 23, 97>>, ty |-> TSeq(TMap(TString, TBool))],
       [bytes |-> <<59, 44, 23, 97>>, ty |-> TAny],
       [bytes |-> <<27, 12>>, ty |-> TSeq(EnumE)],
       [bytes |-> <<43, 35, 49>>, ty |-> TSeq(TInt("u8"))],
       [bytes |-> <<44, 23, 97>>, ty |-> TMap(TString, TBool)],
       [bytes |-> <<43, 19, 49>>, ty |-> TTuple(<<TInt("u8"), TInt("u8")>>)],
       [bytes |-> <<59, 39, 255, 255>>, ty |-> TSeq(TString)],
       [bytes |-> <<59, 44, 23, 97>>, ty |-> TSeq(StructP)] >>

\* the text of a decimal literal: a sign and its digits
Decimal(neg, digits) ==
    (IF neg THEN <<45>> ELSE <<>>) \o [i \in 1..Len(digits) |-> 48 + digits[i]]

\* decimal literals with the integer each denotes, at and around the limits
\* of the integer widths, from -2^63 to 2^64 - 1
IntTexts ==
    << [text |-> Decimal(FALSE, <<0>>), n |-> IntOf(0)],
       [text |-> Decimal(FALSE, <<2, 5, 5>>), n |-> IntOf(255)],
       [text |-> Decimal(FALSE, <<2, 5, 6>>), n |-> IntOf(256)],
       [text |-> Decimal(FALSE, <<6, 5, 5, 3, 5>>), n |-> IntOf(65535)],
       [text |-> Decimal(FALSE, <<6, 5, 5, 3, 6>>), n |-> IntOf(65536)],
       [text |-> Decimal(FALSE, <<4, 2, 9, 4, 9, 6, 7, 2, 9, 5>>),
        n |-> [neg |-> FALSE, mag |-> <<0, 0, 65535, 65535>>]],
       [text |-> Decimal(FALSE, <<4, 2, 9, 4, 9, 6, 7, 2, 9, 6>>),
        n |-> [neg |-> FALSE, mag |-> <<0, 1, 0, 0>>]],
       [text |-> Decimal(FALSE, <<9, 2, 2, 3, 3, 7, 2, 0, 3, 6, 8, 5, 4, 7, 7,
                                  5, 8, 0, 7>>),
        n |-> [neg |-> FALSE, mag |-> <<32767, 65535, 65535, 65535>>]],
       [text |-> Decimal(FALSE, <<9, 2, 2, 3, 3, 7, 2, 0, 3, 6, 8, 5, 4, 7, 7,
                                  5, 8, 0, 8>>),
        n |-> [neg |-> FALSE, mag |-> <<32768, 0, 0, 0>>]],
       [text |-> Decimal(FALSE, <<1, 8, 4, 4, 6, 7, 4, 4, 0, 7, 3, 7, 0, 9, 5,
                                  5, 1, 6, 1, 5>>),
        n |-> [neg |-> FALSE, mag |-> <<65535, 65535, 65535, 65535>>]],
       [text |-> Decimal(TRUE, <<1>>), n |-> IntOf(-1)],
       [text |-> Decimal(TRUE, <<1, 2, 8>>), n |-> IntOf(-128)],
       [text |-> Decimal(TRUE, <<1, 2, 9>>), n |-> IntOf(-129)],
       [text |-> Decimal(TRUE, <<3, 2, 7, 6, 8>>), n |-> IntOf(-32768)],
       [text |-> Decimal(TRUE, <<3, 2, 7, 6, 9>>), n |-> IntOf(-32769)],
       [text |-> Decimal(TRUE, <<2, 1, 4, 7, 4, 8, 3, 6, 4, 8>>),
        n |-> [neg |-> TRUE, mag |-> <<0, 0, 32768, 0>>]],
       [text |-> Decimal(TRUE, <<2, 1, 4, 7, 4, 8, 3, 6, 4, 9>>),
        n |-> [neg |-> TRUE, mag |-> <<0, 0, 32768, 1>>]],
       [text |-> Decimal(TRUE, <<9, 2, 2, 3, 3, 7, 2, 0, 3, 6, 8, 5, 4, 7, 7,
                                 5, 8, 0, 8>>),
        n |-> [neg |-> TRUE, mag |-> <<32768, 0, 0, 0>>]] >>

\* each literal as an Int element under a 2-byte header, decoded as a
\* self-describing value
IntInputs ==
    [i \in 1..Len(IntTexts) |->
        [bytes |-> HeaderInForm(ETInt, Len(IntTexts[i].text), 2)
                       \o IntTexts[i].text,
         ty |-> TAny]]

\* Objects decoded as the enum E:
\*   {"N": 42}, {"N": 42, null}, {"A": null}, {"A"}, {"N": 1, "N": 2},
\*   {"T": [7, 1], null}, {"S": {"x": true, "id": 1}, "A"},
\*   [ {"N": 42, null} ] as Vec<E>, [ {"N": 42}, "B" ] as Vec<E>
EnumInputs ==
    << [bytes |-> <<92, 23, 78, 35, 52, 50>>, ty |-> EnumE],
       [bytes |-> <<108, 23, 78, 35, 52, 50, 0>>, ty |-> EnumE],
       [bytes |-> <<60, 23, 65, 0>>, ty |-> EnumE],
       [bytes |-> <<44, 23, 65>>, ty |-> EnumE],
       [bytes |-> <<140, 23, 78, 19, 49, 23, 78, 19, 50>>, ty |-> EnumE],
       [bytes |-> <<140, 23, 84, 75, 19, 55, 21, 49, 0>>, ty |-> EnumE],
       [bytes |-> <<204, 13, 23, 83, 140, 23, 120, 1, 39, 105, 100, 21, 49,
                    23, 65>>,
        ty |-> EnumE],
       [bytes |-> <<123, 108, 23, 78, 35, 52, 50, 0>>, ty |-> TSeq(EnumE)],
       [bytes |-> <<139, 92, 23, 78, 35, 52, 50, 23, 66>>,
        ty |-> TSeq(EnumE)] >>

\* Null, True and False elements that declare a payload, followed by the
\* next element of the enclosing Array:
\*   [ null+2, true ] as ((), bool), as (Option<bool>, bool) and as any
\*   value, [ true+2, false ] as (bool, bool), [ false+11, null+1 ] as
\*   (bool, ()), null+1 as Option<bool>
PayloadInputs ==
    << [bytes |-> <<75, 32, 9, 9, 1>>, ty |-> TTuple(<<TUnit, TBool>>)],
       [bytes |-> <<75, 32, 9, 9, 1>>,
        ty |-> TTuple(<<TOption(TBool), TBool>>)],
       [bytes |-> <<75, 32, 9, 9, 1>>, ty |-> TAny],
       [bytes |-> <<75, 33, 9, 9, 2>>, ty |-> TTuple(<<TBool, TBool>>)],
       [bytes |-> <<203, 14, 178>> \o Repeat(9, 11) \o <<16, 9>>,
        ty |-> TTuple(<<TBool, TUnit>>)],
       [bytes |-> <<16, 9>>, ty |-> TOption(TBool)] >>

\* inputs that end early: no byte at all for several types; a header
\* whose announced size bytes are missing; an Array or Object whose payload
\* ends with a child complete ([true], {"a": true}) or stops inside a
\* child's header; an inner Array whose payload stops inside a child's
\* header while the enclosing Array goes on
TruncatedInputs ==
    << [bytes |-> <<>>, ty |-> TAny],
       [bytes |-> <<>>, ty |-> TBool],
       [bytes |-> <<>>, ty |-> TOption(TBool)],
       [bytes |-> <<>>, ty |-> TSeq(TBool)],
       [bytes |-> <<>>, ty |-> EnumE],
       [bytes |-> <<>>, ty |-> StructP],
       [bytes |-> <<195>>, ty |-> TInt("u8")],
       [bytes |-> <<211, 0>>, ty |-> TInt("u8")],
       [bytes |-> <<227, 0, 0, 0>>, ty |-> TAny],
       [bytes |-> <<243, 0, 0, 0, 0, 0, 0, 0>>, ty |-> TOption(TInt("u8"))],
       [bytes |-> <<27, 1>>, ty |-> TSeq(TBool)],
       [bytes |-> <<60, 23, 97, 1>>, ty |-> TMap(TString, TBool)],
       [bytes |-> <<27, 195>>, ty |-> TSeq(TInt("u8"))],
       [bytes |-> <<27, 195>>, ty |-> TAny],
       [bytes |-> <<43, 209, 0>>, ty |-> TSeq(TBool)],
       [bytes |-> <<60, 23, 97, 193>>, ty |-> TMap(TString, TBool)],
       [bytes |-> <<75, 27, 195, 1, 49>>, ty |-> TSeq(TSeq(TInt("u8")))],
       [bytes |-> <<75, 27, 195, 1, 49>>, ty |-> TAny] >>

\* Arrays decoded as tuples that take fewer elements than the Array holds,
\* next to Arrays decoded in full:
\*   [true, false, true] as (bool, bool) and as a tuple struct of two bools,
\*   [[true, false, true]] as ((bool, bool), bool),
\*   [[true, false, true, false]] as Vec<(bool, bool)>,
\*   [[true, false], true] as ((bool, bool), bool),
\*   [[true], [false]] as Vec<Vec<bool>>
CursorInputs ==
    << [bytes |-> <<59, 1, 2, 1>>, ty |-> TTuple(<<TBool, TBool>>)],
       [bytes |-> <<59, 1, 2, 1>>, ty |-> TTupleStruct(<<TBool, TBool>>)],
       [bytes |-> <<75, 59, 1, 2, 1>>,
        ty |-> TTuple(<<TTuple(<<TBool, TBool>>), TBool>>)],
       [bytes |-> <<91, 75, 1, 2, 1, 2>>,
        ty |-> TSeq(TTuple(<<TBool, TBool>>))],
       [bytes |-> <<75, 43, 1, 2, 1>>,
        ty |-> TTuple(<<TTuple(<<TBool, TBool>>), TBool>>)],
       [bytes |-> <<75, 27, 1, 27, 2>>, ty |-> TSeq(TSeq(TBool))] >>

\* Arrays and Objects that declare more payload bytes than follow:
\*   0xBB (an Array of 11 bytes, nothing after the header) as Vec<bool> and
\*   as any value, 0xBC (an Object of 11 bytes) as a map, an Array of 3
\*   bytes holding only `true` as Vec<bool> and as (bool, bool), an Array
\*   of 4 bytes holding an Array of 2 bytes holding only `true`
ShortInputs ==
    << [bytes |-> <<187>>, ty |-> TSeq(TBool)],
       [bytes |-> <<187>>, ty |-> TAny],
       [bytes |-> <<188>>, ty |-> TMap(TString, TBool)],
       [bytes |-> <<59, 1>>, ty |-> TSeq(TBool)],
       [bytes |-> <<59, 1>>, ty |-> TTuple(<<TBool, TBool>>)],
       [bytes |-> <<75, 43, 1>>, ty |-> TSeq(TSeq(TBool))] >>

\* text elements whose payload is cut short:
\*   a Text and a TextRaw of 3 bytes holding only "a" as String, the Text
\*   as any value, as char and as Option<String>; [ <Text of 3 bytes> ] in an
\*   Array of 2 bytes followed by "aa" as Vec<String>; and a complete
\*   Text "a" as String
CutTextInputs ==
    << [bytes |-> <<55, 97>>, ty |-> TString],
       [bytes |-> <<58, 97>>, ty |-> TString],
       [bytes |-> <<55, 97>>, ty |-> TAny],
       [bytes |-> <<55, 97>>, ty |-> TChar],
       [bytes |-> <<55, 97>>, ty |-> TOption(TString)],
       [bytes |-> <<43, 55, 97, 97, 97>>, ty |-> TSeq(TString)],
       [bytes |-> <<23, 97>>, ty |-> TString] >>

\* elements that are skipped:
\*   {"zz": [[true], "abc"], "x": true} and {"zz": <reserved 13 holding 2
\*   bytes>, "x": true} as struct { x: bool }, the unknown field zz first;
\*   {"zz": <Text of 3 bytes cut after 1>} as that struct;
\*   a Text of 300 bytes, whole and one byte short, an Array of 3 bytes
\*   holding 1, and a 9-byte header declaring 2^64 - 1 bytes, as IgnoredAny
SkipInputs ==
    << [bytes |-> <<204, 13, 39, 122, 122, 107, 27, 1, 55, 97, 98, 99,
                    23, 120, 1>>,
        ty |-> TStruct(<< <<NameX, TBool>> >>)],
       [bytes |-> <<156, 39, 122, 122, 45, 200, 201, 23, 120, 1>>,
        ty |-> TStruct(<< <<NameX, TBool>> >>)],
       [bytes |-> <<92, 39, 122, 122, 55, 97>>,
        ty |-> TStruct(<< <<NameX, TBool>> >>)],
       [bytes |-> <<215, 1, 44>> \o Repeat(120, 300), ty |-> TIgnored],
       [bytes |-> <<215, 1, 44>> \o Repeat(120, 299), ty |-> TIgnored],
       [bytes |-> <<59, 1>>, ty |-> TIgnored],
       [bytes |-> <<247, 255, 255, 255, 255, 255, 255, 255, 255>>,
        ty |-> TIgnored] >>

WireInputs ==
    EnumInputs \o PayloadInputs \o TruncatedInputs \o IntInputs
        \o CursorInputs \o ShortInputs \o CutTextInputs \o SkipInputs

\* the number of bytes that follow a header in the buffers given to
\* read_header and is_jsonb
MaxTail == 4

\* 9-byte headers that declare sizes near 2^64 and 5-byte headers that
\* declare 2^32 - 1
LargeHeaders ==
    { <<240 + et>> \o to_be_bytes(size) :
          et \in {ETNull, ETInt, ETBinaryFloat},
          size \in { <<65535, 65535, 65535, 65535>>,
                     <<65535, 65535, 65535, 65527>>,
                     <<65535, 65535, 65535, 65526>>, <<0, 1, 0, 0>> } }
        \cup { <<224 + et, 255, 255, 255, 255>> : et \in {ETNull, ETObject} }

\* every prefix, the empty one included, of a header of each type, form and
\* declared size 0, 1 or 3 followed by MaxTail bytes; and the large headers
Buffers ==
    { TakeN(HeaderInForm(et, n, f) \o Repeat(7, MaxTail), len) :
          et \in ElementType, n \in {0, 1, 3}, f \in HeaderForms,
          len \in 0..(9 + MaxTail) }
        \cup LargeHeaders

\* buffers a JsonbWriter is created on, and the sizes of the payloads
\* written after its placeholder: both sides of the 1/2- and 2/3-byte
\* header thresholds, and of the 3/5-byte threshold for containers
WriterPrefixes == { <<>>, <<171>>, <<203, 250, 251, 252>> }

PatchSizes == {0, 1, 11, 12, 255, 256}

LargePatchSizes == {65535, 65536}

\* a payload of n bytes, no two neighbours equal
PatchPayload(n) == [i \in 1..n |-> (i * 7) % 251]

\* ------------------------------------------------------------------------
\* The state machine: a caller encodes a value and decodes the bytes, or
\* decodes bytes that come from elsewhere
\* ------------------------------------------------------------------------
VARIABLES
    pc,         \* "start", or the call that has returned
    value,      \* the value given to to_vec / to_vec_with_options
    ty,         \* the type asked of from_slice / from_reader
    options,    \* Options.binary_float
    encoded,    \* what to_vec returned: [status, buffer]; status "None"
                \* when the decoder's input was not encoded here
    input,      \* the bytes given to the decoder
    result,     \* what the decoder returned
    forms,      \* per header form: the header read and the value decoded
    finalized,  \* a header rewritten by finalize: [et, size, h]
    top_header, \* what read_header returned on the input
    validated   \* what is_jsonb returned on the input

vars == <<pc, value, ty, options, encoded, input, result, forms, finalized,
          top_header, validated>>

NoResult == Err("None", <<>>)

NotEncoded == [status |-> "None", buffer |-> <<>>]

Init ==
    /\ pc = "start"
    /\ value = VUnit
    /\ ty = TUnit
    /\ options = FALSE
    /\ encoded = NotEncoded
    /\ input = <<>>
    /\ result = NoResult
    /\ forms = <<>>
    /\ finalized = <<>>
    /\ top_header = NoResult
    /\ validated = NoResult

\* to_vec(&value)
ToVec(i) ==
    /\ pc = "start"
    /\ value' = Values[i].v
    /\ ty' = Values[i].ty
    /\ options' = FALSE
    /\ encoded' = to_vec(value')
    /\ pc' = "to_vec"
    /\ UNCHANGED <<input, result, forms, finalized, top_header, validated>>

\* to_vec_with_options(&value, Options { binary_float })
ToVecWithOptions(i, binary_float) ==
    /\ pc = "start"
    /\ value' = Values[i].v
    /\ ty' = Values[i].ty
    /\ options' = binary_float
    /\ encoded' = to_vec_with_options(value', binary_float)
    /\ pc' = "to_vec_with_options"
    /\ UNCHANGED <<input, result, forms, finalized, top_header, validated>>

\* from_slice::<T>(bytes): the encoded bytes followed by extra, decoded as
\* the value's own type or as a self-describing value
FromSlice(any, extra) ==
    /\ pc \in {"to_vec", "to_vec_with_options"}
    /\ encoded.status = "Ok"
    /\ input' = encoded.buffer \o extra
    /\ ty' = IF any THEN TAny ELSE ty
    /\ result' = from_slice(ty', input')
    /\ pc' = "from_slice"
    /\ UNCHANGED <<value, options, encoded, forms, finalized, top_header,
                   validated>>

\* from_reader::<_, T>(reader) over the same bytes
FromReader(any, extra) ==
    /\ pc \in {"to_vec", "to_vec_with_options"}
    /\ encoded.status = "Ok"
    /\ input' = encoded.buffer \o extra
    /\ ty' = IF any THEN TAny ELSE ty
    /\ result' = from_reader(ty', input')
    /\ pc' = "from_reader"
    /\ UNCHANGED <<value, options, encoded, forms, finalized, top_header,
                   validated>>

\* from_slice / from_reader on bytes that were not encoded here
DecodeMalformed(i, slice) ==
    /\ pc = "start"
    /\ input' = MalformedInputs[i].bytes
    /\ ty' = MalformedInputs[i].ty
    /\ result' = IF slice THEN from_slice(ty', input')
                 ELSE from_reader(ty', input')
    /\ pc' = IF slice THEN "from_slice" ELSE "from_reader"
    /\ UNCHANGED <<value, options, encoded, forms, finalized, top_header,
                   validated>>

\* read_header and from_slice on the five header forms of one element
DecodeForms(et, p, t) ==
    /\ pc = "start"
    /\ input' = FormPayloads[p]
    /\ ty' = FormTypes[t]
    /\ forms' = [f \in HeaderForms |->
            [et |-> et,
             bytes |-> HeaderInForm(et, Len(input'), f) \o input',
             header |-> read_header(HeaderInForm(et, Len(input'), f)
                                        \o input'),
             decoded |-> from_slice(ty', HeaderInForm(et, Len(input'), f)
                                             \o input')]]
    /\ pc' = "read_header"
    /\ UNCHANGED <<value, options, encoded, result, finalized, top_header,
                   validated>>

\* JsonbWriter::finalize rewriting the placeholder of an element of type et
\* whose payload has the given size
FinalizeLarge(et, size) ==
    /\ pc = "start"
    /\ finalized' = [et |-> et, size |-> size,
                     h |-> FinalizeHeader(Repeat(et, 9), size)]
    /\ pc' = "finalize"
    /\ UNCHANGED <<value, ty, options, encoded, input, result, forms,
                   top_header, validated>>

\* JsonbWriter::new on a buffer, a payload written after the placeholder,
\* then JsonbWriter::finalize
FinalizeBuffer(prefix, et, n) ==
    /\ pc = "start"
    /\ finalized' =
          [et |-> et, size |-> U64FromNat(n),
           h |-> FinalizeHeader(Repeat(et, 9), U64FromNat(n)),
           header_start |-> JsonbWriterNew(prefix, et).header_start,
           before |-> JsonbWriterNew(prefix, et).buffer \o PatchPayload(n),
           after |-> Finalize(JsonbWriterNew(prefix, et).buffer
                                  \o PatchPayload(n),
                              JsonbWriterNew(prefix, et).header_start)]
    /\ pc' = "finalize_buffer"
    /\ UNCHANGED <<value, ty, options, encoded, input, result, forms,
                   top_header, validated>>

\* from_slice / from_reader on an element written by another encoder
DecodeWire(i, slice) ==
    /\ pc = "start"
    /\ input' = WireInputs[i].bytes
    /\ ty' = WireInputs[i].ty
    /\ result' = IF slice THEN from_slice(ty', input')
                 ELSE from_reader(ty', input')
    /\ pc' = IF slice THEN "wire_from_slice" ELSE "wire_from_reader"
    /\ UNCHANGED <<value, options, encoded, forms, finalized, top_header,
                   validated>>

\* Deserializer::from_bytes(data).read_header()
ReadHeader(data) ==
    /\ pc = "start"
    /\ input' = data
    /\ top_header' = read_header(data)
    /\ pc' = "from_bytes"
    /\ UNCHANGED <<value, ty, options, encoded, result, forms, finalized,
                   validated>>

\* is_jsonb(data), in a build with or without overflow checks
IsJsonb(data, overflow_checks) ==
    /\ pc = "start"
    /\ input' = data
    /\ validated' = is_jsonb(data, overflow_checks)
    /\ pc' = "is_jsonb"
    /\ UNCHANGED <<value, ty, options, encoded, result, forms, finalized,
                   top_header>>

Next ==
    \/ \E i \in 1..Len(Values) : ToVec(i)
    \/ \E i \in 1..Len(Values), b \in BOOLEAN : ToVecWithOptions(i, b)
    \/ \E any \in BOOLEAN, extra \in Trailing : FromSlice(any, extra)
    \/ \E any \in BOOLEAN, extra \in Trailing : FromReader(any, extra)
    \/ \E i \in 1..Len(MalformedInputs), slice \in BOOLEAN :
          DecodeMalformed(i, slice)
    \/ \E et \in ElementType, p \in 1..Len(FormPayloads),
          t \in 1..Len(FormTypes) : DecodeForms(et, p, t)
    \/ \E et \in ElementType, size \in BoundarySizes : FinalizeLarge(et, size)
    \/ \E prefix \in WriterPrefixes, et \in ElementType, n \in PatchSizes :
          FinalizeBuffer(prefix, et, n)
    \/ \E et \in {ETArray, ETObject}, n \in LargePatchSizes :
          FinalizeBuffer(<<171>>, et, n)
    \/ \E i \in 1..Len(WireInputs), slice \in BOOLEAN : DecodeWire(i, slice)
    \/ \E data \in Buffers : ReadHeader(data)
    \/ \E data \in Buffers, overflow_checks \in BOOLEAN :
          IsJsonb(data, overflow_checks)

Spec == Init /\ [][Next]_vars

\* ------------------------------------------------------------------------
\* The wire format as the properties state it: the header length a first
\* byte announces, the size it carries, the shortest header of a size
\* ------------------------------------------------------------------------
WireHeaderLen(b) ==
    CASE b[1] \div 16 <= 11 -> 1
      [] b[1] \div 16 = 12 -> 2
      [] b[1] \div 16 = 13 -> 3
      [] b[1] \div 16 = 14 -> 5
      [] b[1] \div 16 = 15 -> 9

WireSize(b) ==
    IF b[1] \div 16 <= 11 THEN U64FromNat(b[1] \div 16)
    ELSE from_be_bytes(Repeat(0, 9 - WireHeaderLen(b))
                          \o Slice(b, 1, WireHeaderLen(b)))

ShortestHeaderLen(size) ==
    IF U64Leq(size, <<0, 0, 0, 11>>) THEN 1
    ELSE IF U64Leq(size, <<0, 0, 0, 255>>) THEN 2
    ELSE IF U64Leq(size, <<0, 0, 0, 65535>>) THEN 3
    ELSE IF U64Leq(size, <<0, 0, 65535, 65535>>) THEN 5
    ELSE 9

\* (length marker << 4) | element type, then the big-endian size
ShortestHeader(et, size) ==
    LET len == ShortestHeaderLen(size)
        marker == CASE len = 1 -> size[4] [] len = 2 -> 12 [] len = 3 -> 13
                    [] len = 5 -> 14 [] len = 9 -> 15
    IN  <<marker * 16 + et>> \o Slice(to_be_bytes(size), 9 - len, 8)

\* every element of b, at any depth, is complete and has the shortest
\* header of its payload size
RECURSIVE WireMinimal(_)
WireMinimal(b) ==
    IF b = <<>> THEN TRUE
    ELSE LET len == WireHeaderLen(b)
             size == WireSize(b)
             end == len + U64ToNat(size)
         IN  /\ Len(b) >= len
             /\ U64IsSmall(size)
             /\ Len(b) >= end
             /\ len = ShortestHeaderLen(size)
             /\ b[1] % 16 \in {ETArray, ETObject}
                    => WireMinimal(Slice(b, len, end))
             /\ WireMinimal(DropN(b, end))

\* the sizes the specification lists with the header length of each:
\* 0, 11, 12, 255, 256, 65535, 65536, 0xFFFFFFFF, 0x100000000
ListedSizes ==
    << <<<<0, 0, 0, 0>>, 1>>, <<<<0, 0, 0, 11>>, 1>>, <<<<0, 0, 0, 12>>, 2>>,
       <<<<0, 0, 0, 255>>, 2>>, <<<<0, 0, 0, 256>>, 3>>,
       <<<<0, 0, 0, 65535>>, 3>>, <<<<0, 0, 1, 0>>, 5>>,
       <<<<0, 0, 65535, 65535>>, 5>>, <<<<0, 1, 0, 0>>, 9>> >>

\* ------------------------------------------------------------------------
\* The properties
\* ------------------------------------------------------------------------

\* C1: round-trip identity.  Whenever from_slice is given exactly the bytes
\* to_vec returned for a value and is asked for the value's own type, it
\* succeeds and returns a value equal to the one encoded.
C1_RoundTrip ==
    (/\ pc = "from_slice"
     /\ encoded.status = "Ok"
     /\ ~options
     /\ input = encoded.buffer
     /\ ty # TAny)
        => (result.err = "Ok" /\ result.val = value)

\* C2: header minimality on encode.  Every element of the bytes to_vec /
\* to_vec_with_options return, at any depth, carries the shortest header
\* of its payload size; and the header finalize writes for a payload size
\* has the shortest length (1, 2, 3, 5, 9 bytes by the thresholds 11, 0xFF,
\* 0xFFFF, 0xFFFFFFFF), its first byte is (marker << 4) | element type, the
\* following bytes are the big-endian size, and the listed sizes get the
\* listed lengths.
C2_HeaderMinimality ==
    /\ (pc \in {"to_vec", "to_vec_with_options"} /\ encoded.status = "Ok")
            => WireMinimal(encoded.buffer)
    /\ pc = "finalize" =>
          /\ finalized.h.head_len = ShortestHeaderLen(finalized.size)
          /\ TakeN(finalized.h.header, finalized.h.head_len)
                = ShortestHeader(finalized.et, finalized.size)
          /\ \A i \in 1..Len(ListedSizes) :
                finalized.size = ListedSizes[i][1]
                    => finalized.h.head_len = ListedSizes[i][2]

\* an encoded sequence whose payload needs the 2-byte header, with
\* elements inside it
C2_Witness ==
    /\ pc = "to_vec"
    /\ encoded.status = "Ok"
    /\ value.k = "seq"
    /\ Len(encoded.buffer) > 13
    /\ encoded.buffer[1] = 12 * 16 + ETArray

\* C3: the decoder accepts all five header forms.  For an element type and
\* a payload of at most 11 bytes, read_header on each of the 1-, 2-, 3-, 5-
\* and 9-byte forms returns the same Header (the type from the low four
\* bits of the first byte, the size of the payload) and consumes exactly
\* that many bytes, and from_slice returns the same result for each form.
C3_AllHeaderForms ==
    pc = "read_header" =>
        \A f \in HeaderForms :
            /\ forms[f].header.err = "Ok"
            /\ forms[f].header.val
                    = Header(forms[f].et, U64FromNat(Len(input)))
            /\ Len(forms[f].bytes) - Len(forms[f].header.rest) = f
            /\ forms[f].header.val.element_type = forms[f].bytes[1] % 16
            /\ forms[f].decoded = forms[1].decoded

\* an Object of one key and one value, decoded from its 5-byte and 9-byte
\* header forms
C3_Witness ==
    /\ pc = "read_header"
    /\ forms[1].et = ETObject
    /\ Len(input) = 3
    /\ forms[5].decoded.err = "Ok"
    /\ forms[9].decoded.err = "Ok"
    /\ forms[9].decoded.val.k = "map"

\* C4: trailing-data rejection.  When the input is a complete element that
\* decodes as the target type, followed by at least one more byte,
\* from_slice and from_reader fail with TrailingCharacters, for typed and
\* for self-describing targets.
C4_TrailingRejected ==
    (/\ pc \in {"from_slice", "from_reader"}
     /\ encoded.status = "Ok"
     /\ Len(input) > Len(encoded.buffer)
     /\ from_slice(ty, encoded.buffer).err = "Ok")
        => result.err = "TrailingCharacters"

\* the number of elements laid end to end in b
RECURSIVE WireCount(_)
WireCount(b) ==
    IF b = <<>> THEN 0
    ELSE 1 + WireCount(DropN(b, WireHeaderLen(b) + U64ToNat(WireSize(b))))

\* the payload of the first element of b
WirePayload(b) ==
    Slice(b, WireHeaderLen(b), WireHeaderLen(b) + U64ToNat(WireSize(b)))

\* the number of children of a decoded container, -1 for any other value
ChildCount(v) ==
    CASE v.k \in {"seq", "tuple", "tuple_struct"} -> Len(v.items)
      [] v.k = "bytes" -> Len(v.bytes)
      [] v.k = "map" -> Len(v.entries)
      [] v.k = "struct" -> Len(v.fields)
      [] OTHER -> -1

\* C5: container bounding.  When the bytes to_vec returned start with an
\* Array or an Object and are decoded as the value's own container type or
\* as a self-describing value, the decode succeeds and the container it
\* returns has exactly the children that lie within the declared
\* payload_size bytes: one per element of an Array, one per key/value pair
\* of an Object.
C5_ContainerBounded ==
    (/\ pc \in {"from_slice", "from_reader"}
     /\ encoded.status = "Ok"
     /\ input = encoded.buffer
     /\ input[1] % 16 \in {ETArray, ETObject}
     /\ (ty = TAny \/ ChildCount(value) >= 0))
        => /\ result.err = "Ok"
           /\ ChildCount(result.val)
                = IF input[1] % 16 = ETArray
                  THEN WireCount(WirePayload(input))
                  ELSE WireCount(WirePayload(input)) \div 2

\* C6: no silent skipping.  An input with a malformed element inside it
\* makes from_slice and from_reader fail: none of the malformed inputs
\* decodes to Ok.
C6_NoSilentSkipping ==
    (pc \in {"from_slice", "from_reader"} /\ encoded = NotEncoded)
        => result.err # "Ok"

\* C7: BinaryFloat is always decodable.  The bytes to_vec_with_options
\* returns for a float with binary_float = true decode, as the float's
\* type and as a self-describing value, to the same float.
C7_BinaryFloatDecodable ==
    (/\ pc \in {"from_slice", "from_reader"}
     /\ encoded.status = "Ok"
     /\ options
     /\ value.k = "float"
     /\ input = encoded.buffer)
        => /\ result.err = "Ok"
           /\ result.val.k = "float"
           /\ result.val.id = value.id

\* the floats of a value in the order they are serialized
RECURSIVE FloatsOf(_)
RECURSIVE FloatsOfAll(_)
FloatsOfAll(vs) ==
    IF vs = <<>> THEN <<>> ELSE FloatsOf(Head(vs)) \o FloatsOfAll(Tail(vs))

FloatsOf(v) ==
    CASE v.k = "float" -> <<v>>
      [] v.k \in {"some", "newtype_struct", "newtype_variant"} -> FloatsOf(v.v)
      [] v.k \in {"seq", "tuple", "tuple_struct", "tuple_variant"} ->
            FloatsOfAll(v.items)
      [] v.k = "map" ->
            FloatsOfAll([i \in 1..(2 * Len(v.entries)) |->
                            v.entries[(i + 1) \div 2][2 - (i % 2)]])
      [] v.k \in {"struct", "struct_variant"} ->
            FloatsOfAll([i \in 1..Len(v.fields) |-> v.fields[i][2]])
      [] OTHER -> <<>>

\* the Float, Float5 and BinaryFloat elements of b at any depth, in order:
\* the header byte and the payload of each
RECURSIVE WireFloats(_)
WireFloats(b) ==
    IF b = <<>> THEN <<>>
    ELSE (CASE b[1] % 16 \in {ETFloat, ETFloat5, ETBinaryFloat} ->
                << [header |-> b[1], payload |-> WirePayload(b)] >>
            [] b[1] % 16 \in {ETArray, ETObject} -> WireFloats(WirePayload(b))
            [] OTHER -> <<>>)
         \o WireFloats(DropN(b, WireHeaderLen(b) + U64ToNat(WireSize(b))))

\* C8: the binary-float option on encode.  The float elements of the bytes
\* to_vec / to_vec_with_options return are the floats of the value, one
\* each and in order: with binary_float = true a BinaryFloat element of
\* header byte 0x4F and 4 little-endian bytes for an f32, 0x8F and 8 for
\* an f64; with binary_float = false a Float element holding the decimal
\* text.
C8_BinaryFloatOption ==
    (pc \in {"to_vec", "to_vec_with_options"} /\ encoded.status = "Ok")
        => WireFloats(encoded.buffer)
            = [i \in 1..Len(FloatsOf(value)) |->
                LET f == FloatsOf(value)[i]
                IN  IF options
                    THEN [header |-> IF f.w = 32 THEN 79 ELSE 143,
                          payload |-> to_le_bytes(f.w, f.id)]
                    ELSE [header |-> Len(FloatTable[f.id].text) * 16 + ETFloat,
                          payload |-> FloatTable[f.id].text]]

\* C9: reserved codes always error.  An element of type 0xD or 0xE, in any
\* header form and whatever its payload, makes from_slice fail with
\* UnexpectedType for every target type.
C9_ReservedAlwaysError ==
    (pc = "read_header" /\ forms[1].et \in {ETReserved13, ETReserved14})
        => \A f \in HeaderForms : forms[f].decoded.err = "UnexpectedType"

\* an element with the shortest header of its payload
WireElement(et, payload) ==
    ShortestHeader(et, U64FromNat(Len(payload))) \o payload

TextTypes == {ETText, ETTextJ, ETText5, ETTextRaw}

\* the encodings of the values vs, end to end
RECURSIVE EncodingsOf(_, _)
EncodingsOf(vs, binary_float) ==
    IF vs = <<>> THEN <<>>
    ELSE to_vec_with_options(Head(vs), binary_float).buffer
            \o EncodingsOf(Tail(vs), binary_float)

\* field-name / value pairs end to end, the names as text of type te
RECURSIVE FieldEncodingsOf(_, _, _)
FieldEncodingsOf(fields, te, binary_float) ==
    IF fields = <<>> THEN <<>>
    ELSE WireElement(te, Head(fields)[1])
            \o to_vec_with_options(Head(fields)[2], binary_float).buffer
            \o FieldEncodingsOf(Tail(fields), te, binary_float)

\* C10: enum encoding shapes.  A unit variant is encoded as one text
\* element holding the variant name; a newtype variant as an Object of the
\* single key = variant name and value = the field's own encoding; a tuple
\* variant as such an Object whose value is an Array of the fields in
\* order; a struct variant as such an Object whose value is an Object of
\* field-name / value pairs in order; every container header is the
\* shortest of its payload size.
C10_EnumShapes ==
    (pc \in {"to_vec", "to_vec_with_options"} /\ encoded.status = "Ok")
        => \E te \in TextTypes :
            CASE value.k = "unit_variant" ->
                    encoded.buffer = WireElement(te, value.variant)
              [] value.k = "newtype_variant" ->
                    encoded.buffer
                        = WireElement(ETObject,
                            WireElement(te, value.variant)
                                \o to_vec_with_options(value.v, options).buffer)
              [] value.k = "tuple_variant" ->
                    encoded.buffer
                        = WireElement(ETObject,
                            WireElement(te, value.variant)
                                \o WireElement(ETArray,
                                        EncodingsOf(value.items, options)))
              [] value.k = "struct_variant" ->
                    encoded.buffer
                        = WireElement(ETObject,
                            WireElement(te, value.variant)
                                \o WireElement(ETObject,
                                        FieldEncodingsOf(value.fields, te,
                                                         options)))
              [] OTHER -> TRUE

\* a tuple variant whose Array and whose Object need the 2-byte header
C10_Witness ==
    /\ pc = "to_vec"
    /\ encoded.status = "Ok"
    /\ value.k = "tuple_variant"
    /\ Len(encoded.buffer) > 15
    /\ encoded.buffer[1] = 12 * 16 + ETObject

\* the first element of b, header and payload
WireFirst(b) == TakeN(b, WireHeaderLen(b) + U64ToNat(WireSize(b)))

\* the number of bytes of an Object's payload region that one key and the
\* payload of the variant it names take: the key element, and for a variant
\* that is not a unit variant the element after it
EnumRegionUsed(variants, region) ==
    LET key == WireFirst(region)
        i == IndexOfName([j \in 1..Len(variants) |-> variants[j].name],
                         WirePayload(region))
    IN  IF variants[i].shape = "unit" THEN Len(key)
        ELSE Len(key) + Len(WireFirst(DropN(region, Len(key))))

\* C11: enum decoding from an Object.  When an Object is decoded as an enum
\* (at top level or as the first element of a Vec of the enum) and its first
\* key names a variant, the decode fails with TrailingCharacters if bytes of
\* the Object's payload region remain after the key and the variant's
\* payload, and succeeds with that variant if none remain; an element that
\* is neither a text element nor an Object fails with UnexpectedType
\* carrying its type, in every header form.
C11_EnumFromObject ==
    /\ (/\ pc \in {"wire_from_slice", "wire_from_reader"}
        /\ ty \in {EnumE, TSeq(EnumE)}
        /\ input # <<>>)
          => LET object == IF ty = EnumE THEN input
                           ELSE WireFirst(WirePayload(input))
                 region == WirePayload(object)
             IN  IF EnumRegionUsed(EnumE.variants, region) < Len(region)
                 THEN result.err = "TrailingCharacters"
                 ELSE /\ result.err = "Ok"
                      /\ (IF ty = EnumE THEN result.val
                          ELSE result.val.items[1]).variant
                            = WirePayload(region)
    /\ (/\ pc = "read_header"
        /\ ty = EnumE
        /\ forms[1].et \notin TextTypes \cup {ETObject})
          => \A f \in HeaderForms :
                /\ forms[f].decoded.err = "UnexpectedType"
                /\ forms[f].decoded.et = forms[1].et

\* {"N": 42, null} decoded as the enum: a byte is left in the Object after
\* the payload of N
C11_Witness ==
    /\ pc = "wire_from_slice"
    /\ ty = EnumE
    /\ input = <<108, 23, 78, 35, 52, 50, 0>>
    /\ result.err = "TrailingCharacters"

\* the value a Null, True or False element stands for
ConstantOf(et) ==
    CASE et = ETNull -> VUnit
      [] et = ETTrue -> VBool(TRUE)
      [] et = ETFalse -> VBool(FALSE)

\* C12: Null, True and False payloads are discarded.  A Null element that
\* declares a payload of n >= 0 bytes decodes as unit for a unit target and
\* a self-describing target and as none for an optional target, a True or
\* False element as the bool, in every header form, and the decode uses up
\* the header and the n payload bytes: from_slice on exactly the element
\* succeeds, and in an enclosing Array the element after it is read from
\* the byte right after the payload.
C12_PayloadDiscarded ==
    /\ (pc = "read_header" /\ forms[1].et = ETNull
            /\ ty \in {TUnit, TAny, TOption(TString)})
          => \A f \in HeaderForms :
                /\ forms[f].decoded.err = "Ok"
                /\ forms[f].decoded.val
                      = IF ty = TOption(TString) THEN VNone ELSE VUnit
    /\ (pc = "read_header" /\ forms[1].et \in {ETTrue, ETFalse}
            /\ ty \in {TBool, TAny})
          => \A f \in HeaderForms :
                /\ forms[f].decoded.err = "Ok"
                /\ forms[f].decoded.val = ConstantOf(forms[1].et)
    /\ (/\ pc \in {"wire_from_slice", "wire_from_reader"}
        /\ \E i \in 1..Len(PayloadInputs) :
              PayloadInputs[i] = [bytes |-> input, ty |-> ty])
          => /\ result.err = "Ok"
             /\ input[1] % 16 # ETArray => result.val = VNone
             /\ input[1] % 16 = ETArray =>
                  LET first == WireFirst(WirePayload(input))
                      second == DropN(WirePayload(input), Len(first))
                  IN  /\ Len(result.val.items) = 2
                      /\ result.val.items[1]
                            = IF ty = TTuple(<<TOption(TBool), TBool>>)
                              THEN VNone ELSE ConstantOf(first[1] % 16)
                      /\ result.val.items[2] = ConstantOf(second[1] % 16)

\* some element of b, at any depth, has a header whose announced size
\* bytes do not all lie in b
RECURSIVE WireCutInHeader(_)
WireCutInHeader(b) ==
    IF b = <<>> THEN FALSE
    ELSE IF Len(b) < WireHeaderLen(b) THEN TRUE
    ELSE \/ /\ b[1] % 16 \in {ETArray, ETObject}
            /\ WireCutInHeader(WirePayload(b))
         \/ WireCutInHeader(DropN(b, Len(WireFirst(b))))

\* C13: Empty against a truncated header.  read_header fails with Empty
\* exactly when the reader holds no byte; when the first byte announces
\* more size bytes than the reader holds it fails with an I/O error, and
\* otherwise it succeeds.  from_slice and from_reader on an empty input
\* fail with Empty and on a truncated header with an I/O error; an Array or
\* Object whose payload ends after a complete child decodes, and one whose
\* payload stops inside a child's header, at any depth, fails with an I/O
\* error.
C13_EmptyOrTruncated ==
    /\ pc = "from_bytes" =>
          /\ top_header.err = "Empty" <=> input = <<>>
          /\ (input # <<>> /\ Len(input) < WireHeaderLen(input))
                => top_header.err = "Io"
          /\ (input # <<>> /\ Len(input) >= WireHeaderLen(input))
                => top_header.err = "Ok"
    /\ (/\ pc \in {"wire_from_slice", "wire_from_reader"}
        /\ \E i \in 1..Len(TruncatedInputs) :
              TruncatedInputs[i] = [bytes |-> input, ty |-> ty])
          => IF input = <<>> THEN result.err = "Empty"
             ELSE IF WireCutInHeader(input) THEN result.err = "Io"
             ELSE result.err = "Ok"

\* C14: integer encoding.  The bytes to_vec / to_vec_with_options return
\* for an integer of any width are exactly one Int element with the
\* shortest header of its payload, and the payload is the integer's decimal
\* text: '-' exactly for a negative one, then digits without a leading
\* zero that denote the magnitude.  The i64 1234567890123456789 gives 0xC3
\* 0x13 and its 19 digits, 42u8 gives 0x23 '4' '2'.
C14_IntegerEncoding ==
    (/\ pc \in {"to_vec", "to_vec_with_options"}
     /\ value.k = "int")
        => /\ encoded.status = "Ok"
           /\ encoded.buffer[1] % 16 = ETInt
           /\ encoded.buffer
                = WireElement(ETInt, WirePayload(encoded.buffer))
           /\ LET text == WirePayload(encoded.buffer)
                  digits == IF value.n.neg THEN Tail(text) ELSE text
              IN  /\ value.n.neg <=> text[1] = 45
                  /\ digits # <<>>
                  /\ \A i \in 1..Len(digits) : digits[i] \in 48..57
                  /\ Len(digits) > 1 => digits[1] # 48
                  /\ ParseDigits(digits, <<0, 0, 0, 0>>)
                        = [v |-> value.n.mag, overflow |-> FALSE]
           /\ value = VInt("u8", IntOf(42)) => encoded.buffer = <<35, 52, 50>>
           /\ value.n = [neg |-> FALSE, mag |-> <<4386, 4340, 32233, 33045>>]
                => encoded.buffer
                     = <<195, 19>> \o Decimal(FALSE, <<1, 2, 3, 4, 5, 6, 7, 8,
                            9, 0, 1, 2, 3, 4, 5, 6, 7, 8, 9>>)

\* the i64 -2^63 encoded: 20 bytes of text under a 2-byte header
C14_Witness ==
    /\ pc = "to_vec"
    /\ value = VInt("i64", [neg |-> TRUE, mag |-> <<32768, 0, 0, 0>>])
    /\ encoded.status = "Ok"
    /\ Len(encoded.buffer) = 22
    /\ encoded.buffer[1] = 12 * 16 + ETInt

\* C15: raw text passthrough.  A string or a char is encoded as one TextRaw
\* element whose payload is the value's UTF-8 bytes as they are; a Text or
\* TextRaw element with a UTF-8 payload decodes as a string to exactly the
\* payload, in every header form; and a string, with double quotes,
\* backslashes or non-ASCII characters in it, decodes back unchanged from
\* the bytes it was encoded to.
C15_RawText ==
    /\ (pc \in {"to_vec", "to_vec_with_options"} /\ value.k \in {"str", "char"})
          => /\ encoded.status = "Ok"
             /\ encoded.buffer = WireElement(ETTextRaw, value.utf8)
    /\ (/\ pc = "read_header"
        /\ forms[1].et \in {ETText, ETTextRaw}
        /\ ty = TString
        /\ IsUtf8(input))
          => \A f \in HeaderForms :
                /\ forms[f].decoded.err = "Ok"
                /\ forms[f].decoded.val = VStr(input)
    /\ (/\ pc \in {"from_slice", "from_reader"}
        /\ encoded.status = "Ok"
        /\ value.k = "str"
        /\ ty = TString
        /\ input = encoded.buffer)
          => /\ result.err = "Ok"
             /\ result.val = value

\* the string  h e-acute l l o " q " \  decoded back from its TextRaw
\* element
C15_Witness ==
    /\ pc = "from_slice"
    /\ value = VStr(<<104, 195, 169, 108, 108, 111, 32, 34, 113, 34, 32, 92>>)
    /\ input = encoded.buffer
    /\ input[1] % 16 = ETTextRaw
    /\ result.err = "Ok"
    /\ result.val = value

\* the number of code points of UTF-8 text: the bytes that are not
\* continuation bytes
Codepoints(utf8) ==
    Cardinality({i \in 1..Len(utf8) : utf8[i] \notin 128..191})

\* C16: character decoding.  A text element whose text is exactly one code
\* point decodes as a char to that code point and any other text fails with
\* a Message error; so every char the encoder wrote, those of 2, 3 and 4
\* UTF-8 bytes included, decodes back to the same char.
C16_CharDecoding ==
    /\ (/\ pc = "read_header"
        /\ forms[1].et \in {ETText, ETTextRaw}
        /\ ty = TChar
        /\ IsUtf8(input))
          => \A f \in HeaderForms :
                IF Codepoints(input) = 1
                THEN /\ forms[f].decoded.err = "Ok"
                     /\ forms[f].decoded.val = VChar(input)
                ELSE forms[f].decoded.err = "Message"
    /\ (/\ pc \in {"from_slice", "from_reader"}
        /\ encoded.status = "Ok"
        /\ value.k = "char"
        /\ ty = TChar
        /\ input = encoded.buffer)
          => /\ result.err = "Ok"
             /\ result.val = value

\* the integer types in the order the property tries them
NarrowingOrder == <<"u8", "u16", "u32", "u64", "i8", "i16", "i32", "i64">>

\* the magnitude m, a u64, is below 2^bits
Below(m, bits) ==
    \A j \in 0..3 :
        /\ j > bits \div 16 => m[4 - j] = 0
        /\ j = bits \div 16 => m[4 - j] < 2 ^ (bits % 16)

\* 2^bits as a u64, for bits < 64
Pow2(bits) == [j \in 1..4 |-> IF 4 - j = bits \div 16 THEN 2 ^ (bits % 16)
                              ELSE 0]

\* the integer type can represent n: 0 .. 2^w - 1 for an unsigned type of
\* w bits, -2^(w-1) .. 2^(w-1) - 1 for a signed one
Represents(type, n) ==
    LET w == CASE type \in {"u8", "i8"} -> 8
               [] type \in {"u16", "i16"} -> 16
               [] type \in {"u32", "i32"} -> 32
               [] type \in {"u64", "i64"} -> 64
    IN  IF type \in {"u8", "u16", "u32", "u64"}
        THEN ~n.neg /\ Below(n.mag, w)
        ELSE Below(n.mag, w - 1) \/ (n.neg /\ n.mag = Pow2(w - 1))

\* C17: integer narrowing in any-value decoding.  An Int element whose text
\* denotes an integer n with -2^63 <= n <= 2^64 - 1, decoded as a
\* self-describing value, succeeds and delivers n as the first of u8, u16,
\* u32, u64, i8, i16, i32, i64 that can represent it.
C17_IntegerNarrowing ==
    (/\ pc \in {"wire_from_slice", "wire_from_reader"}
     /\ \E i \in 1..Len(IntInputs) :
           IntInputs[i] = [bytes |-> input, ty |-> ty])
        => LET i == CHOOSE i \in 1..Len(IntTexts) :
                        IntTexts[i].text = WirePayload(input)
               first == CHOOSE j \in 1..8 :
                            /\ Represents(NarrowingOrder[j], IntTexts[i].n)
                            /\ \A k \in 1..(j - 1) :
                                  ~Represents(NarrowingOrder[k], IntTexts[i].n)
           IN  /\ result.err = "Ok"
               /\ result.val = VInt(NarrowingOrder[first], IntTexts[i].n)

\* serializing the value fails: it is, or a sequence holds, a value whose
\* Serialize implementation reports a custom error
SerializeFails(v) ==
    \/ v = VFailing
    \/ v.k = "seq" /\ \E i \in 1..Len(v.items) : v.items[i] = VFailing

\* C18: encode errors are returned.  When serializing the value fails,
\* to_vec and to_vec_with_options both return Err to their caller, with no
\* panic and no buffer; when it does not fail they return Ok.
C18_EncodeErrorsReturned ==
    pc \in {"to_vec", "to_vec_with_options"}
        => IF SerializeFails(value)
           THEN encoded = [status |-> "Err", buffer |-> <<>>]
           ELSE encoded.status = "Ok"

\* the element types the property lists for a scalar target
AcceptedTypes(T) ==
    CASE T.t = "bool" -> {ETTrue, ETFalse}
      [] T.t = "unit" -> {ETNull}
      [] T.t = "int" -> {ETInt, ETInt5}
      [] T.t = "float" -> {ETInt, ETInt5, ETFloat, ETFloat5}
      [] T.t \in {"string", "char"} -> TextTypes

C20_IsJsonb ==
    pc = "is_jsonb"
        => IF input = <<>>
           THEN validated = JsonbErr("Empty", "")
           ELSE IF Len(input) < WireHeaderLen(input)
           THEN validated
                  = JsonbErr("Message", "not enough bytes to for header")
           ELSE IF ~U64IsSmall(WireSize(input))
                    \/ Len(input)
                         # WireHeaderLen(input) + U64ToNat(WireSize(input))
           THEN validated
                  = JsonbErr("Message",
                             "data length does not match header payload size")
           ELSE validated = JsonbOk(Header(input[1] % 16, WireSize(input)))

\* C21: backpatch frame condition.  finalize, called with header_start = h
\* on a buffer of length L >= h + 9, leaves the bytes before h unchanged,
\* writes at h the shortest header of payload size L - (h + 9) with the
\* element type given at creation, leaves the payload bytes in their order
\* right after that header, and truncates the buffer to h + header length
\* + payload size; a header of 9 bytes fills the whole placeholder, so the
\* payload stays where it was.
C21_BackpatchFrame ==
    /\ pc = "finalize_buffer" =>
          /\ Len(finalized.before) >= finalized.header_start + 9
          /\ Slice(finalized.after, 0, finalized.header_start)
                = Slice(finalized.before, 0, finalized.header_start)
          /\ Slice(finalized.after, finalized.header_start,
                   finalized.header_start + finalized.h.head_len)
                = ShortestHeader(finalized.et, finalized.size)
          /\ Slice(finalized.after,
                   finalized.header_start + finalized.h.head_len,
                   Len(finalized.after))
                = Slice(finalized.before, finalized.header_start + 9,
                        Len(finalized.before))
          /\ Len(finalized.after)
                = finalized.header_start
                    + Len(ShortestHeader(finalized.et, finalized.size))
                    + (Len(finalized.before) - (finalized.header_start + 9))
    /\ (pc = "finalize" /\ finalized.h.head_len = 9)
          => /\ Len(finalized.h.header) = 9
             /\ finalized.h.header
                    = HeaderSerialize(Header(finalized.et, finalized.size))

\* a placeholder created after four bytes, a payload of 256 bytes shifted
\* left by six to close the gap behind the 3-byte header
C21_Witness ==
    /\ pc = "finalize_buffer"
    /\ finalized.header_start = 4
    /\ finalized.h.head_len = 3
    /\ Len(finalized.before) = 4 + 9 + 256
    /\ Len(finalized.after) = 4 + 3 + 256

\* key, value, key, value ... of the entries of a map or of the fields of
\* a struct (a field name is given to the encoder as a str)
Flatten(entries, named) ==
    [i \in 1..(2 * Len(entries)) |->
        IF i % 2 = 0 THEN entries[i \div 2][2]
        ELSE IF named THEN VStr(entries[(i + 1) \div 2][1])
        ELSE entries[(i + 1) \div 2][1]]

\* C22: well-formed nesting of encoder output.  The bytes to_vec /
\* to_vec_with_options return form exactly one element; every Array and
\* Object inside them, at any depth, declares a payload size that its
\* children fill exactly, each child complete and the next one starting
\* where it ends; and the payload of an encoded sequence, tuple, map or
\* struct is the encodings of its children end to end, under the shortest
\* header of that many bytes (so no placeholder byte is left and every
\* header was patched at its own placeholder).
C22_WellFormedNesting ==
    (pc \in {"to_vec", "to_vec_with_options"} /\ encoded.status = "Ok")
        => /\ encoded.buffer # <<>>
           /\ WireCount(encoded.buffer) = 1
           /\ WireMinimal(encoded.buffer)
           /\ value.k \in {"seq", "tuple", "tuple_struct"}
                => encoded.buffer
                    = WireElement(ETArray, EncodingsOf(value.items, options))
           /\ value.k = "map"
                => encoded.buffer
                    = WireElement(ETObject,
                        EncodingsOf(Flatten(value.entries, FALSE), options))
           /\ value.k = "struct"
                => encoded.buffer
                    = WireElement(ETObject,
                        EncodingsOf(Flatten(value.fields, TRUE), options))

\* a sequence holding a struct whose last field is a sequence of enum
\* values, a tuple variant with its two stacked writers among them: four
\* levels of containers finalized from the inside out
C22_Witness ==
    /\ pc = "to_vec"
    /\ encoded.status = "Ok"
    /\ value.k = "seq"
    /\ Len(value.items) = 1
    /\ value.items[1].k = "struct"
    /\ value.items[1].fields[3][2].k = "seq"
    /\ value.items[1].fields[3][2].items[2].k = "tuple_variant"
    /\ encoded.buffer[1] = 12 * 16 + ETArray
    /\ WireCount(WirePayload(encoded.buffer)) = 1

\* a decoder result with its value wrapped in Some
SomeOf(r) == IF r.err = "Ok" THEN [r EXCEPT !.val = VSome(r.val)] ELSE r

\* the same outcome: the same value and the same bytes left, or the same
\* error
SameOutcome(a, b) ==
    /\ a.err = b.err
    /\ a.et = b.et
    /\ a.val = b.val
    /\ a.err = "Ok" => a.rest = b.rest

\* decoding bytes as Option<of>: none for a Null header, otherwise what
\* decoding them as `of` gives, also with a byte following the element
OptionTransparent(of, bytes) ==
    IF bytes[1] % 16 = ETNull
    THEN read_header(bytes).err = "Ok"
            => deserialize_option(of, bytes)
                    = Ok(VNone, read_header(bytes).rest)
    ELSE /\ SameOutcome(deserialize_option(of, bytes),
                        SomeOf(Deserialize(of, bytes)))
         /\ SameOutcome(deserialize_option(of, bytes \o <<1>>),
                        SomeOf(Deserialize(of, bytes \o <<1>>)))

\* C23: optional-present decoding is transparent.  read_header of
\* Header::serialize(h) is h.  Decoding an element whose header is not Null
\* as Option<T> gives Some of what decoding the same bytes as T gives and
\* consumes the same bytes, or fails as decoding them as T fails, in each
\* of the five header forms and for from_slice and from_reader; an element
\* with a Null header is decoded as none.
C23_OptionTransparent ==
    /\ (pc = "from_bytes" /\ top_header.err = "Ok")
          => read_header(HeaderSerialize(top_header.val))
                = Ok(top_header.val, <<>>)
    /\ (pc = "read_header" /\ ty.t = "option")
          => \A f \in HeaderForms :
                /\ OptionTransparent(ty.of, forms[f].bytes)
                /\ forms[f].et # ETNull
                    => SameOutcome(forms[f].decoded,
                                   SomeOf(from_slice(ty.of, forms[f].bytes)))
    /\ (pc \in {"from_slice", "wire_from_slice"} /\ ty.t = "option"
            /\ input # <<>>)
          => /\ OptionTransparent(ty.of, input)
             /\ input[1] % 16 # ETNull
                    => SameOutcome(result, SomeOf(from_slice(ty.of, input)))
    /\ (pc \in {"from_reader", "wire_from_reader"} /\ ty.t = "option"
            /\ input # <<>>)
          => /\ OptionTransparent(ty.of, input)
             /\ input[1] % 16 # ETNull
                    => SameOutcome(result, SomeOf(from_reader(ty.of, input)))

\* an Array of two elements decoded as Option<Vec<bool>> from its 1-byte
\* and its 5-byte header form: Some([true, false]) from both
C23_Witness ==
    /\ pc = "read_header"
    /\ ty = TOption(TSeq(TBool))
    /\ forms[1].et = ETArray
    /\ forms[1].decoded.err = "Ok"
    /\ forms[1].decoded.val = VSome(VSeq(<<VBool(TRUE), VBool(FALSE)>>))
    /\ forms[5].decoded = forms[1].decoded

\* the targets decoded by deserialize_seq / deserialize_tuple /
\* deserialize_tuple_struct / deserialize_bytes / deserialize_map /
\* deserialize_struct
ContainerTargets ==
    {"seq", "tuple", "tuple_struct", "byte_buf", "map", "struct"}

\* the type the first child of a sequence or tuple is decoded as
FirstItemType(T) ==
    CASE T.t = "seq" -> T.of
      [] T.t \in {"tuple", "tuple_struct"} /\ T.items # <<>> -> T.items[1]
      [] OTHER -> TUnit

\* b starts with a complete element; if decoding it as the container type
\* T returns Ok, the reader is left right after the element's payload
CursorAtEnd(T, b) ==
    (/\ T.t \in ContainerTargets
     /\ b # <<>>
     /\ Len(b) >= WireHeaderLen(b)
     /\ Len(b) >= WireHeaderLen(b) + U64ToNat(WireSize(b))
     /\ Deserialize(T, b).err = "Ok")
        => Deserialize(T, b).rest = DropN(b, Len(WireFirst(b)))

\* C24: cursor invariant of typed container decoding.  Whenever decoding a
\* complete element as a sequence, tuple, tuple struct, byte buffer, map or
\* struct returns Ok, the reader is positioned right after the element's
\* declared payload, at top level and for the first child of an enclosing
\* sequence or tuple, also when the visitor took fewer children than the
\* container holds.
C24_CursorAtEnd ==
    (/\ pc \in {"from_slice", "from_reader", "wire_from_slice",
                "wire_from_reader"}
     /\ input # <<>>)
        => /\ CursorAtEnd(ty, input)
           /\ (/\ ty.t \in ContainerTargets
               /\ Len(input) >= WireHeaderLen(input)
               /\ Len(input) >= WireHeaderLen(input)
                                    + U64ToNat(WireSize(input)))
                 => CursorAtEnd(FirstItemType(ty), WirePayload(input))

\* C25: container type check in typed decoding.  Decoding an element as a
\* sequence, tuple, tuple struct or byte buffer returns Ok only if the
\* element is an Array, and decoding it as a map or struct only if it is an
\* Object; an element of any other type fails with UnexpectedType carrying
\* its type, in every header form.
C25_ContainerTypeCheck ==
    /\ (/\ pc \in {"from_slice", "from_reader", "wire_from_slice",
                   "wire_from_reader"}
        /\ result.err = "Ok")
          => /\ ty.t \in {"seq", "tuple", "tuple_struct", "byte_buf"}
                    => input[1] % 16 = ETArray
             /\ ty.t \in {"map", "struct"} => input[1] % 16 = ETObject
    /\ (pc = "read_header" /\ ty.t \in ContainerTargets)
          => \A f \in HeaderForms :
                forms[f].et # (IF ty.t \in {"map", "struct"} THEN ETObject
                               ELSE ETArray)
                    => /\ forms[f].decoded.err = "UnexpectedType"
                       /\ forms[f].decoded.et = forms[f].et

\* C26: truncated containers are rejected.  When the input starts with an
\* Array or Object header that declares more payload bytes than follow it,
\* from_slice and from_reader fail.
C26_TruncatedContainerRejected ==
    (/\ pc \in {"from_slice", "from_reader", "wire_from_slice",
                "wire_from_reader"}
     /\ input # <<>>
     /\ input[1] % 16 \in {ETArray, ETObject}
     /\ Len(input) >= WireHeaderLen(input)
     /\ Len(input) < WireHeaderLen(input) + U64ToNat(WireSize(input)))
        => result.err # "Ok"

\* C27: the assertion of read_payload_string holds.  No decode panics: a
\* Text or TextRaw element whose payload is cut short by the end of the
\* input or by the limit of the enclosing container makes from_slice and
\* from_reader return an Err.
C27_NoPanicOnCutText ==
    /\ pc \in {"from_slice", "from_reader", "wire_from_slice",
               "wire_from_reader"}
          => result.err # "Panic"
    /\ pc = "read_header"
          => \A f \in HeaderForms : forms[f].decoded.err # "Panic"
    /\ (/\ pc \in {"wire_from_slice", "wire_from_reader"}
        /\ ty \in {TString, TChar}
        /\ input # <<>>
        /\ input[1] % 16 \in {ETText, ETTextRaw}
        /\ Len(input) >= WireHeaderLen(input)
        /\ Len(input) < WireHeaderLen(input) + U64ToNat(WireSize(input)))
          => result.err \notin {"Ok", "Panic"}

\* a decoder result with its value wrapped in the newtype struct
NewtypeOf(r) ==
    IF r.err = "Ok" THEN [r EXCEPT !.val = VNewtypeStruct(r.val)] ELSE r

\* C28: newtype structs are transparent in both directions.  Encoding a
\* newtype struct gives exactly the bytes of encoding the wrapped value;
\* decoding bytes as a newtype struct gives the wrapper of what decoding
\* them as the wrapped type gives; and from_slice of the bytes to_vec
\* returned for a newtype struct returns the struct.
C28_NewtypeTransparent ==
    /\ (/\ pc \in {"to_vec", "to_vec_with_options"}
        /\ value.k = "newtype_struct"
        /\ encoded.status = "Ok")
          => encoded.buffer = to_vec_with_options(value.v, options).buffer
    /\ (/\ pc \in {"from_slice", "from_reader"}
        /\ ty.t = "newtype_struct")
          => /\ pc = "from_slice"
                => SameOutcome(result, NewtypeOf(from_slice(ty.of, input)))
             /\ pc = "from_reader"
                => SameOutcome(result, NewtypeOf(from_reader(ty.of, input)))
             /\ input = encoded.buffer
                => (result.err = "Ok" /\ result.val = value)

\* C29: is_jsonb never overflows.  For every buffer, also one whose 9-byte
\* header declares a payload size close to 2^64 (0xF0 followed by eight
\* 0xFF bytes), is_jsonb returns without panicking; it returns Ok only when
\* the buffer's length is the header length plus the declared size; and for
\* a header that declares 2^32 - 1 bytes or more with nothing after it, it
\* returns the length-mismatch error.
C29_IsJsonbNoOverflow ==
    pc = "is_jsonb"
        => /\ validated.err # "Panic"
           /\ validated.err = "Ok"
                => /\ U64IsSmall(WireSize(input))
                   /\ Len(input)
                        = WireHeaderLen(input) + U64ToNat(WireSize(input))
           /\ input \in LargeHeaders
                => validated.msg
                      = "data length does not match header payload size"

====
